---- MODULE Spec2Model ----
(***************************************************************************)
(* A model of go-astisub: the Subtitles document and its operations        *)
(* (Order, Add, Fragment, Unfragment, Merge, Optimize), the StyleAttributes *)
(* propagation functions, and the duration codec shared by the text codecs. *)
(*                                                                         *)
(* Items are heap objects ([]*Item): mem is the heap, a document's Items    *)
(* is a Go slice of pointers (indices of mem) with a capacity.              *)
(***************************************************************************)
EXTENDS Integers, Sequences, FiniteSets, TLC

\* a nil pointer
Nil == [nil |-> TRUE]

(* ---------------------------------------------------------------------- *)
(* Bounds of the model                                                     *)
(* ---------------------------------------------------------------------- *)

\* time.Duration is counted in ticks; TicksPerMs ticks make one millisecond,
\* so that Duration.Milliseconds() truncates.
TicksPerMs == 2
\* Items of a document in the initial state.
MaxItems == 2
\* Operations applied in a row to one document.
MaxOps == 2

Millisecond == TicksPerMs
Second == 1000 * Millisecond

(* ---------------------------------------------------------------------- *)
(* Helpers                                                                 *)
(* ---------------------------------------------------------------------- *)

RemoveAt(q, k) == SubSeq(q, 1, k - 1) \o SubSeq(q, k + 1, Len(q))

InsertAt(q, k, x) == SubSeq(q, 1, k - 1) \o <<x>> \o SubSeq(q, k, Len(q))

Range(q) == {q[k] : k \in DOMAIN q}

\* strings.Join on TLA+ strings
RECURSIVE JoinStr(_, _)
JoinStr(q, sep) ==
    IF Len(q) = 0 THEN ""
    ELSE IF Len(q) = 1 THEN q[1]
    ELSE q[1] \o sep \o JoinStr(Tail(q), sep)

\* Duration.Milliseconds(): integer division truncating toward zero
Milliseconds(d) == IF d >= 0 THEN d \div TicksPerMs ELSE -((-d) \div TicksPerMs)

(* ---------------------------------------------------------------------- *)
(* Go strings, as sequences of one-character strings, and the functions of *)
(* strings, strconv and fmt the program calls                              *)
(* ---------------------------------------------------------------------- *)

Digit == <<"0", "1", "2", "3", "4", "5", "6", "7", "8", "9">>

IsDigit(c) == \E k \in 1..10 : Digit[k] = c

DigitValue(c) == (CHOOSE k \in 1..10 : Digit[k] = c) - 1

\* Go's integer division and remainder: the quotient truncates toward zero
Quo(a, b) == IF a >= 0 THEN a \div b ELSE -((-a) \div b)

Rem(a, b) == a - b * Quo(a, b)

RECURSIVE Pow10(_)
Pow10(e) == IF e <= 0 THEN 1 ELSE 10 * Pow10(e - 1)

\* Mutant of Pow10Int: the milliseconds are not scaled by the number of digits.
Pow10IntOne(e) == 1

\* int(math.Pow10(e)): a negative power of ten converts to 0
Pow10Int(e) == IF e < 0 THEN 0 ELSE Pow10(e)

\* strconv.Itoa
RECURSIVE Itoa(_)
Itoa(n) ==
    IF n < 0 THEN <<"-">> \o Itoa(-n)
    ELSE IF n < 10 THEN <<Digit[n + 1]>>
    ELSE Itoa(n \div 10) \o <<Digit[(n % 10) + 1]>>

\* the number a sequence of digits writes
RECURSIVE ParseUint(_)
ParseUint(q) ==
    IF Len(q) = 0 THEN 0
    ELSE 10 * ParseUint(SubSeq(q, 1, Len(q) - 1)) + DigitValue(q[Len(q)])

\* strconv.Atoi: an optional sign, then one digit or more
Atoi(q) ==
    LET signed == Len(q) > 0 /\ q[1] \in {"+", "-"}
        body == IF signed THEN Tail(q) ELSE q
    IN IF Len(body) = 0 \/ \E k \in DOMAIN body : ~IsDigit(body[k])
       THEN [err |-> TRUE, v |-> 0]
       ELSE [err |-> FALSE,
             v |-> IF signed /\ q[1] = "-" THEN -ParseUint(body) ELSE ParseUint(body)]

\* strings.TrimSpace (the space is the only white space of the model's strings)
RECURSIVE TrimLeft(_)
TrimLeft(q) == IF Len(q) > 0 /\ q[1] = " " THEN TrimLeft(Tail(q)) ELSE q

RECURSIVE TrimRight(_)
TrimRight(q) ==
    IF Len(q) > 0 /\ q[Len(q)] = " " THEN TrimRight(SubSeq(q, 1, Len(q) - 1)) ELSE q

TrimSpace(q) == TrimRight(TrimLeft(q))

\* strings.HasPrefix
HasPrefix(q, prefix) == Len(q) >= Len(prefix) /\ SubSeq(q, 1, Len(prefix)) = prefix

\* strings.Index, 1-based, 0 when sep does not occur
Index(q, sep) ==
    LET at == {k \in 1..(Len(q) - Len(sep) + 1) : SubSeq(q, k, k + Len(sep) - 1) = sep}
    IN IF at = {} THEN 0 ELSE CHOOSE k \in at : \A l \in at : k <= l

\* strings.Split, for a separator that is not empty
RECURSIVE Split(_, _)
Split(q, sep) ==
    LET k == Index(q, sep)
    IN IF k = 0 THEN <<q>>
       ELSE <<SubSeq(q, 1, k - 1)>> \o Split(SubSeq(q, k + Len(sep), Len(q)), sep)

\* strings.Join
RECURSIVE Join(_, _)
Join(parts, sep) ==
    IF Len(parts) = 0 THEN <<>>
    ELSE IF Len(parts) = 1 THEN parts[1]
    ELSE parts[1] \o sep \o Join(Tail(parts), sep)

\* strings.ReplaceAll, for old not empty
ReplaceAll(q, old, new) == Join(Split(q, old), new)

\* q padded on the left with zeros to w characters
RECURSIVE ZeroPad(_, _)
ZeroPad(q, w) == IF Len(q) >= w THEN q ELSE ZeroPad(<<"0">> \o q, w)

\* The hundredths a for which the float64 nearest to (10a+5)/1000 lies above
\* it, so that "%.2f" rounds it up to a+1 hundredths.
HalfRoundsUp ==
    {0, 2, 3, 5, 6, 8, 9, 11, 13, 16, 19, 22, 25, 26, 27, 31, 32, 33, 37, 38, 39, 40,
     44, 45, 46, 50, 51, 52, 53, 54, 55, 63, 64, 65, 66, 67, 68, 75, 76, 77, 78, 79,
     80, 87, 88, 89, 90, 91, 92, 93}

\* fmt.Sprintf("%.wf", float64(k) / float64(1000)) for w = 2 or w = 3 and
\* -1000 < k < 1000: the value rounded to w decimals
SprintfFloat(k, w) ==
    LET a == IF k < 0 THEN -k ELSE k
        r == IF w >= 3 THEN a
             ELSE IF a % 10 < 5 THEN a \div 10
             ELSE IF a % 10 > 5 THEN a \div 10 + 1
             ELSE IF (a \div 10) \in HalfRoundsUp THEN a \div 10 + 1
             ELSE a \div 10
    IN (IF k < 0 THEN <<"-">> ELSE <<>>)
        \o Itoa(r \div Pow10(w)) \o <<".">> \o ZeroPad(Itoa(r % Pow10(w)), w)

(* ---------------------------------------------------------------------- *)
(* The duration codec                                                      *)
(* ---------------------------------------------------------------------- *)

Minute == 60 * Second
Hour == 60 * Minute

\* formatDuration
formatDuration(i, millisecondSep, numberOfMillisecondDigits) ==
    LET hours == Quo(i, Hour)
        minutes == Quo(Rem(i, Hour), Minute)
        seconds == Quo(Rem(i, Minute), Second)
        milliseconds == Quo(Rem(i, Second), Millisecond)
        pad(n) == IF n < 10 THEN <<"0">> ELSE <<>>
        formatted == SprintfFloat(milliseconds, numberOfMillisecondDigits)
    IN pad(hours) \o Itoa(hours) \o <<":">>
        \o pad(minutes) \o Itoa(minutes) \o <<":">>
        \o pad(seconds) \o Itoa(seconds) \o millisecondSep
        \o SubSeq(formatted, 3, Len(formatted))

\* parseDuration: [err, o], o being 0 when err is set
parseDuration(i, millisecondSep, numberOfMillisecondDigits) ==
    LET parts == Split(i, millisecondSep)
        hasMilliseconds == Len(parts) >= 2
        digits == TrimSpace(parts[Len(parts)])
        parsed == Atoi(digits)
        milliseconds ==
            IF hasMilliseconds
            THEN parsed.v * Pow10Int(numberOfMillisecondDigits - Len(digits))
            ELSE 0
        rest == IF hasMilliseconds
                THEN Join(SubSeq(parts, 1, Len(parts) - 1), millisecondSep)
                ELSE i
        hms == Split(TrimSpace(rest), <<":">>)
        partSeconds == hms[Len(hms)]
        partMinutes == hms[Len(hms) - 1]
        partHours == IF Len(hms) = 3 THEN hms[1] ELSE <<>>
        seconds == Atoi(TrimSpace(partSeconds))
        minutes == Atoi(TrimSpace(partMinutes))
        hours == IF Len(partHours) > 0 THEN Atoi(TrimSpace(partHours))
                 ELSE [err |-> FALSE, v |-> 0]
        failed == [err |-> TRUE, o |-> 0]
    IN IF hasMilliseconds /\ (Len(digits) > 3 \/ parsed.err) THEN failed
       ELSE IF Len(hms) \notin {2, 3} THEN failed
       ELSE IF seconds.err \/ minutes.err \/ hours.err THEN failed
       ELSE [err |-> FALSE,
             o |-> milliseconds * Millisecond + seconds.v * Second
                    + minutes.v * Minute + hours.v * Hour]

\* parseDurationSRT: the first of the separators ",", "." and ":" that parses
parseDurationSRT(i) ==
    IF ~parseDuration(i, <<",">>, 3).err THEN parseDuration(i, <<",">>, 3)
    ELSE IF ~parseDuration(i, <<".">>, 3).err THEN parseDuration(i, <<".">>, 3)
    ELSE parseDuration(i, <<":">>, 3)

formatDurationSRT(i) == formatDuration(i, <<",">>, 3)

parseDurationSSA(i) == parseDuration(i, <<".">>, 3)

formatDurationSSA(i) == formatDuration(i, <<".">>, 2)

parseDurationWebVTT(i) == parseDuration(i, <<".">>, 3)

formatDurationWebVTT(i) == formatDuration(i, <<".">>, 3)

(* ---------------------------------------------------------------------- *)
(* Data model                                                              *)
(* ---------------------------------------------------------------------- *)

\* Line.String(): the texts of the line items joined by a space
LineString(l) == JoinStr([k \in DOMAIN l.Items |-> l.Items[k].Text], " ")

\* Item.String(): the lines joined by " - "
ItemString(it) == JoinStr([k \in DOMAIN it.Lines |-> LineString(it.Lines[k])], " - ")

\* LineItem, Line, Item, Region, Style values
LineItem(text, style) == [Text |-> text, Style |-> style]

Line(items) == [Items |-> items]

Item(startAt, endAt, lines, region, style) ==
    [StartAt |-> startAt, EndAt |-> endAt, Lines |-> lines, Region |-> region, Style |-> style]

\* A Region or Style object: owner names the document that created the object,
\* so that two objects with one ID are told apart.
Region(id, style, owner) == [ID |-> id, Style |-> style, Owner |-> owner]

Style(id, owner) == [ID |-> id, Owner |-> owner]

\* NewSubtitles(): no item, empty mappings
NewSubtitles == [Items |-> [elems |-> <<>>, cap |-> 0], Regions |-> <<>>, Styles |-> <<>>]

\* A Go map literal from a set of objects, keyed by ID
MapOf(objs) == [id \in {o.ID : o \in objs} |-> CHOOSE o \in objs : o.ID = id]

\* The capacity Go's append gives a slice that must grow to hold needed
\* elements (runtime growslice for pointer elements, capacities below 256):
\* double the old capacity, or the needed length rounded up to a size class.
growslice(oldCap, needed) ==
    IF needed > 2 * oldCap
    THEN (IF needed <= 4 THEN needed ELSE needed + (needed % 2))
    ELSE 2 * oldCap

\* append(slice, xs...)
appendSlice(sl, xs) ==
    LET needed == Len(sl.elems) + Len(xs)
    IN [elems |-> sl.elems \o xs,
        cap |-> IF needed <= sl.cap THEN sl.cap ELSE growslice(sl.cap, needed)]

\* the capacity of a slice built by n appends of one element to a nil slice
RECURSIVE CapAfterAppends(_)
CapAfterAppends(n) ==
    IF n = 0 THEN 0
    ELSE LET c == CapAfterAppends(n - 1) IN IF n <= c THEN c ELSE growslice(c, n)

(* ---------------------------------------------------------------------- *)
(* Document operations.  An operation takes the heap m and the document d  *)
(* and yields [mem, doc]; operations that sort yield the set of outcomes.   *)
(* ---------------------------------------------------------------------- *)

\* the positions of S whose item may come first: no other item is less
MinStart(m, elems, S) ==
    {k \in S : \A j \in S : ~(m[elems[j]].StartAt < m[elems[k]].StartAt)}

\* sort.Slice(s.Items, less) with less(i, j) = Items[i].StartAt < Items[j].StartAt.
\* sort.Slice is not a stable sort: the result is some permutation in which no
\* item is less than an earlier one, equal items in any order.
RECURSIVE SortedPerms(_, _, _)
SortedPerms(m, elems, S) ==
    IF S = {} THEN {<<>>}
    ELSE UNION {{<<elems[k]>> \o r : r \in SortedPerms(m, elems, S \ {k})} :
                k \in MinStart(m, elems, S)}

sortSlice(m, elems) == SortedPerms(m, elems, DOMAIN elems)

\* Subtitles.Order
Order(m, d) ==
    IF Len(d.Items.elems) <= 1 THEN {d}
    ELSE {[d EXCEPT !.Items.elems = q] : q \in sortSlice(m, d.Items.elems)}

\* Subtitles.Add: the loop over idx (1-based here)
RECURSIVE AddLoop(_, _, _, _)
AddLoop(m, elems, idx, dur) ==
    IF idx > Len(elems) THEN [mem |-> m, elems |-> elems]
    ELSE LET p == elems[idx]
             m1 == [m EXCEPT ![p].EndAt = @ + dur, ![p].StartAt = @ + dur]
         IN IF m1[p].EndAt <= 0 /\ m1[p].StartAt <= 0
            THEN AddLoop(m1, RemoveAt(elems, idx), idx, dur)
            ELSE IF m1[p].StartAt <= 0
            THEN AddLoop([m1 EXCEPT ![p].StartAt = 0], elems, idx + 1, dur)
            ELSE AddLoop(m1, elems, idx + 1, dur)

\* Mutant of Add: an item is removed as soon as its shifted StartAt is not
\* positive, whatever its EndAt.
AddRemovingStarted(m, d, dur) ==
    LET shifted == [p \in DOMAIN m |->
                        IF p \in Range(d.Items.elems)
                        THEN [m[p] EXCEPT !.StartAt = @ + dur, !.EndAt = @ + dur]
                        ELSE m[p]]
    IN [mem |-> shifted,
        doc |-> [d EXCEPT !.Items.elems =
                    SelectSeq(d.Items.elems, LAMBDA p : shifted[p].StartAt > 0)]]

\* Mutant of Add: StartAt is left negative when the shift makes it so.
AddWithoutClamp(m, d, dur) ==
    LET shifted == [p \in DOMAIN m |->
                        IF p \in Range(d.Items.elems)
                        THEN [m[p] EXCEPT !.StartAt = @ + dur, !.EndAt = @ + dur]
                        ELSE m[p]]
    IN [mem |-> shifted,
        doc |-> [d EXCEPT !.Items.elems =
                    SelectSeq(d.Items.elems,
                              LAMBDA p : shifted[p].StartAt > 0 \/ shifted[p].EndAt > 0)]]

\* Subtitles.Add
Add(m, d, dur) ==
    LET r == AddLoop(m, d.Items.elems, 1, dur)
    IN [mem |-> r.mem, doc |-> [d EXCEPT !.Items.elems = r.elems]]

\* Subtitles.Duration
Duration(m, d) ==
    IF Len(d.Items.elems) = 0 THEN 0
    ELSE m[d.Items.elems[Len(d.Items.elems)]].EndAt

\* Subtitles.Merge: the regions (or styles) of i are added under their ID
\* unless the ID is already a key of s
mergeMap(sMap, iMap) ==
    LET added == {iMap[k].ID : k \in DOMAIN iMap} \ DOMAIN sMap
    IN [id \in DOMAIN sMap \cup added |->
            IF id \in DOMAIN sMap THEN sMap[id]
            ELSE CHOOSE o \in Range(iMap) : o.ID = id]

\* Mutant of Merge: the items are appended and left unordered.
MergeWithoutOrder(m, d, idoc) ==
    {[d EXCEPT !.Items = appendSlice(d.Items, idoc.Items.elems),
               !.Regions = mergeMap(d.Regions, idoc.Regions),
               !.Styles = mergeMap(d.Styles, idoc.Styles)]}

\* Subtitles.Merge
Merge(m, d, idoc) ==
    LET appended == [d EXCEPT !.Items = appendSlice(d.Items, idoc.Items.elems)]
    IN {[o EXCEPT !.Regions = mergeMap(d.Regions, idoc.Regions),
                  !.Styles = mergeMap(d.Styles, idoc.Styles)] :
        o \in Order(m, appended)}

\* the IDs of the styles the line items of a line, and of an item, refer to
LineStyles(l) == {l.Items[k].Style.ID : k \in {j \in DOMAIN l.Items : l.Items[j].Style # Nil}}

LineItemStyles(it) == UNION {LineStyles(it.Lines[l]) : l \in DOMAIN it.Lines}

\* Mutant of removeUnusedRegionsAndStyles: every region is kept.
removeUnusedStyles(m, d) ==
    LET its == {m[p] : p \in Range(d.Items.elems)}
        usedStyles == {it.Style.ID : it \in {x \in its : x.Style # Nil}}
                        \cup UNION {LineItemStyles(it) : it \in its}
                        \cup {d.Regions[id].Style.ID :
                                id \in {k \in DOMAIN d.Regions : d.Regions[k].Style # Nil}}
    IN [d EXCEPT !.Styles =
            [id \in {k \in DOMAIN d.Styles : d.Styles[k].ID \in usedStyles} |-> d.Styles[id]]]

\* Subtitles.removeUnusedRegionsAndStyles
removeUnusedRegionsAndStyles(m, d) ==
    LET its == {m[p] : p \in Range(d.Items.elems)}
        usedRegions == {it.Region.ID : it \in {x \in its : x.Region # Nil}}
        itemStyles == {it.Style.ID : it \in {x \in its : x.Style # Nil}}
                        \cup UNION {LineItemStyles(it) : it \in its}
        keptRegions == {id \in DOMAIN d.Regions : d.Regions[id].ID \in usedRegions}
        usedStyles == itemStyles \cup
                        {d.Regions[id].Style.ID :
                            id \in {k \in keptRegions : d.Regions[k].Style # Nil}}
        keptStyles == {id \in DOMAIN d.Styles : d.Styles[id].ID \in usedStyles}
    IN [d EXCEPT !.Regions = [id \in keptRegions |-> d.Regions[id]],
                 !.Styles = [id \in keptStyles |-> d.Styles[id]]]

\* Subtitles.removeEmptyLines: the items with lines, appended to a nil slice
removeEmptyLines(m, d) ==
    LET kept == SelectSeq(d.Items.elems, LAMBDA p : Len(m[p].Lines) # 0)
    IN [d EXCEPT !.Items = [elems |-> kept, cap |-> CapAfterAppends(Len(kept))]]

\* Subtitles.Optimize
Optimize(m, d) ==
    IF Len(d.Items.elems) = 0 THEN d
    ELSE removeEmptyLines(m, removeUnusedRegionsAndStyles(m, d))

\* Subtitles.Unfragment: the loops over i and j (1-based here)
RECURSIVE UnfragmentLoop(_, _, _, _)
UnfragmentLoop(m, elems, i, j) ==
    IF i > Len(elems) - 1 THEN [mem |-> m, elems |-> elems]
    ELSE IF j > Len(elems) THEN UnfragmentLoop(m, elems, i + 1, i + 2)
    ELSE LET a == m[elems[i]]
             b == m[elems[j]]
         IN IF ItemString(a) = ItemString(b) /\ a.EndAt >= b.StartAt
            THEN UnfragmentLoop(
                    IF a.EndAt < b.EndAt THEN [m EXCEPT ![elems[i]].EndAt = b.EndAt] ELSE m,
                    RemoveAt(elems, j), i, j)
            ELSE IF a.EndAt < b.StartAt
            THEN UnfragmentLoop(m, elems, i + 1, i + 2)
            ELSE UnfragmentLoop(m, elems, i, j + 1)

\* Mutant of Unfragment: items with the same text are merged whatever their times.
RECURSIVE UnfragmentLoopIgnoringGaps(_, _, _, _)
UnfragmentLoopIgnoringGaps(m, elems, i, j) ==
    IF i > Len(elems) - 1 THEN [mem |-> m, elems |-> elems]
    ELSE IF j > Len(elems) THEN UnfragmentLoopIgnoringGaps(m, elems, i + 1, i + 2)
    ELSE LET a == m[elems[i]]
             b == m[elems[j]]
         IN IF ItemString(a) = ItemString(b)
            THEN UnfragmentLoopIgnoringGaps(
                    IF a.EndAt < b.EndAt THEN [m EXCEPT ![elems[i]].EndAt = b.EndAt] ELSE m,
                    RemoveAt(elems, j), i, j)
            ELSE UnfragmentLoopIgnoringGaps(m, elems, i, j + 1)

UnfragmentIgnoringGaps(m, d) ==
    IF Len(d.Items.elems) <= 1 THEN {[mem |-> m, doc |-> d]}
    ELSE {LET r == UnfragmentLoopIgnoringGaps(m, o.Items.elems, 1, 2)
          IN [mem |-> r.mem, doc |-> [o EXCEPT !.Items.elems = r.elems]] :
          o \in Order(m, d)}

\* Mutant of Unfragment: the items are ordered and none is merged.
UnfragmentWithoutMerge(m, d) == {[mem |-> m, doc |-> o] : o \in Order(m, d)}

\* Subtitles.Unfragment
Unfragment(m, d) ==
    IF Len(d.Items.elems) <= 1 THEN {[mem |-> m, doc |-> d]}
    ELSE {LET r == UnfragmentLoop(m, o.Items.elems, 1, 2)
          IN [mem |-> r.mem, doc |-> [o EXCEPT !.Items.elems = r.elems]] :
          o \in Order(m, d)}

\* Subtitles.Fragment, the loop over s.Items for one fragment: the range
\* expression is evaluated once, so the loop visits indices 1..n of the array
\* s.Items had when the loop began.  While s.Items still lives in that array
\* (shared), an insertion made in place shifts the items the loop has yet to
\* read; once append has moved s.Items to a new array, the loop reads the old
\* one (rarr), as it was when append left it, which no longer changes.
RECURSIVE FragmentRange(_, _, _, _, _, _, _, _)
FragmentRange(m, sl, rarr, shared, k, n, fragmentStartAt, fragmentEndAt) ==
    IF k > n THEN [mem |-> m, items |-> sl]
    ELSE LET sub == IF shared THEN sl.elems[k] ELSE rarr[k]
             subStartAtMs == Milliseconds(m[sub].StartAt)
             fragmentStartAtMs == Milliseconds(fragmentStartAt)
             subEndAtMs == Milliseconds(m[sub].EndAt)
             fragmentEndAtMs == Milliseconds(fragmentEndAt)
             cutAt == IF subStartAtMs < fragmentStartAtMs /\ subEndAtMs > fragmentStartAtMs
                      THEN fragmentStartAt
                      ELSE fragmentEndAt
             cut == \/ subStartAtMs < fragmentStartAtMs /\ subEndAtMs > fragmentStartAtMs
                    \/ subStartAtMs < fragmentEndAtMs /\ subEndAtMs > fragmentEndAtMs
             newSub == Len(m) + 1
             m1 == Append([m EXCEPT ![sub].StartAt = cutAt], [m[sub] EXCEPT !.EndAt = cutAt])
             inPlace == Len(sl.elems) + 1 <= sl.cap
             sl1 == [elems |-> InsertAt(sl.elems, k, newSub),
                     cap |-> IF inPlace THEN sl.cap ELSE growslice(sl.cap, Len(sl.elems) + 1)]
         IN IF ~cut
            THEN FragmentRange(m, sl, rarr, shared, k + 1, n, fragmentStartAt, fragmentEndAt)
            ELSE FragmentRange(m1, sl1, IF shared /\ ~inPlace THEN sl.elems ELSE rarr,
                               shared /\ inPlace, k + 1, n, fragmentStartAt, fragmentEndAt)

\* Subtitles.Fragment, the loop over the fragments
RECURSIVE FragmentLoop(_, _, _, _, _)
FragmentLoop(m, sl, fragmentStartAt, fragmentEndAt, f) ==
    IF ~(fragmentStartAt < m[sl.elems[Len(sl.elems)]].EndAt) THEN [mem |-> m, items |-> sl]
    ELSE LET r == FragmentRange(m, sl, sl.elems, TRUE, 1, Len(sl.elems),
                                fragmentStartAt, fragmentEndAt)
         IN FragmentLoop(r.mem, r.items, fragmentStartAt + f, fragmentEndAt + f, f)

\* Subtitles.Fragment, for f > 0 (with f <= 0 the loop over the fragments never ends)
Fragment(m, d, f) ==
    IF Len(d.Items.elems) = 0 THEN {[mem |-> m, doc |-> d]}
    ELSE LET r == FragmentLoop(m, d.Items, 0, f, f)
         IN {[mem |-> r.mem, doc |-> o] : o \in Order(r.mem, [d EXCEPT !.Items = r.items])}

\* Subtitles.removeItem: the later items move one place down in the array
removeItem(sl, index) == [sl EXCEPT !.elems = RemoveAt(sl.elems, index)]

\* Subtitles.Trim, the loop from start to end: i stays at the first item,
\* which is removed as long as it starts before from
RECURSIVE TrimFromStart(_, _, _)
TrimFromStart(m, sl, from) ==
    IF Len(sl.elems) = 0 THEN sl
    ELSE IF m[sl.elems[1]].StartAt < from THEN TrimFromStart(m, removeItem(sl, 1), from)
    ELSE sl

\* Subtitles.Trim, the loop from end to start: the last item is removed as
\* long as it ends after to
RECURSIVE TrimFromEnd(_, _, _)
TrimFromEnd(m, sl, to) ==
    IF Len(sl.elems) = 0 THEN sl
    ELSE IF m[sl.elems[Len(sl.elems)]].EndAt > to
    THEN TrimFromEnd(m, removeItem(sl, Len(sl.elems)), to)
    ELSE sl

\* Subtitles.Trim (what it prints on the standard output is left out)
Trim(m, d, from, to) ==
    [d EXCEPT !.Items = TrimFromEnd(m, TrimFromStart(m, d.Items, from), to)]

\* Subtitles.ForceDuration, the loop that looks for the first item that starts
\* at or after d (lastIndex, 0 when there is none) and cuts the items before
\* it that end after d
RECURSIVE ForceDurationLoop(_, _, _, _)
ForceDurationLoop(m, elems, index, d) ==
    IF index > Len(elems) THEN [mem |-> m, lastIndex |-> 0]
    ELSE IF m[elems[index]].StartAt >= d THEN [mem |-> m, lastIndex |-> index]
    ELSE ForceDurationLoop(
            IF m[elems[index]].EndAt > d THEN [m EXCEPT ![elems[index]].EndAt = d] ELSE m,
            elems, index + 1, d)

\* the dummy item ForceDuration adds
DummyItem(d) == Item(d - Millisecond, d, <<Line(<<LineItem("...", Nil)>>)>>, Nil, Nil)

\* Subtitles.ForceDuration, up to the dummy item
ForceDurationCut(m, d0, d) ==
    IF Duration(m, d0) > d
    THEN LET r == ForceDurationLoop(m, d0.Items.elems, 1, d)
         IN [mem |-> r.mem,
             doc |-> IF r.lastIndex # 0
                     THEN [d0 EXCEPT !.Items.elems = SubSeq(@, 1, r.lastIndex - 1)]
                     ELSE d0]
    ELSE [mem |-> m, doc |-> d0]

\* Mutant of ForceDuration: no dummy item is added.
ForceDurationWithoutDummy(m, d0, d, addDummyItem) ==
    IF Duration(m, d0) = d THEN [mem |-> m, doc |-> d0] ELSE ForceDurationCut(m, d0, d)

\* Subtitles.ForceDuration
ForceDuration(m, d0, d, addDummyItem) ==
    IF Duration(m, d0) = d THEN [mem |-> m, doc |-> d0]
    ELSE LET c == ForceDurationCut(m, d0, d)
         IN IF addDummyItem /\ Duration(c.mem, c.doc) < d
            THEN [mem |-> Append(c.mem, DummyItem(d)),
                  doc |-> [c.doc EXCEPT !.Items = appendSlice(@, <<Len(c.mem) + 1>>)]]
            ELSE c

\* Subtitles.RemoveStyling, one item: no region, no style, no style on its line items
Unstyled(it) ==
    [it EXCEPT !.Region = Nil, !.Style = Nil,
               !.Lines = [l \in DOMAIN it.Lines |->
                            [it.Lines[l] EXCEPT !.Items =
                                [k \in DOMAIN it.Lines[l].Items |->
                                    [it.Lines[l].Items[k] EXCEPT !.Style = Nil]]]]]

\* Subtitles.RemoveStyling
RemoveStyling(m, d) ==
    [mem |-> [p \in DOMAIN m |-> IF p \in Range(d.Items.elems) THEN Unstyled(m[p]) ELSE m[p]],
     doc |-> [d EXCEPT !.Regions = <<>>, !.Styles = <<>>]]

\* the integer part of n / q, for q # 0: the conversion of a float64 to a
\* time.Duration drops the fraction
Truncate(n, q) == IF q > 0 THEN Quo(n, q) ELSE Quo(-n, -q)

\* Subtitles.ApplyLinearCorrection, the loop over idx.  a is the quotient
\* num / den, so that time.Duration(a * float64(x)) is the integer part of
\* num * x / den whenever the float64 operations are exact.
RECURSIVE ApplyLinearCorrectionLoop(_, _, _, _, _, _)
ApplyLinearCorrectionLoop(m, elems, idx, num, den, b) ==
    IF idx > Len(elems) THEN m
    ELSE ApplyLinearCorrectionLoop(
            [m EXCEPT ![elems[idx]].EndAt = Truncate(num * @, den) + b,
                      ![elems[idx]].StartAt = Truncate(num * @, den) + b],
            elems, idx + 1, num, den, b)

\* Subtitles.ApplyLinearCorrection, for actual2 # actual1
ApplyLinearCorrection(m, d, actual1, desired1, actual2, desired2) ==
    LET num == desired2 - desired1
        den == actual2 - actual1
        b == Truncate(desired1 * den - num * actual1, den)
    IN [mem |-> ApplyLinearCorrectionLoop(m, d.Items.elems, 1, num, den, b), doc |-> d]

(* ---------------------------------------------------------------------- *)
(* StyleAttributes and the propagation functions.  A *bool is Nil, a       *)
(* pointer to a bool of its own (BoolPtr) or the address of a field of the *)
(* same StyleAttributes (AddrOf); a *string is Nil, one of the package's   *)
(* pointers (ttmlFontWeightBold, ...) or a pointer to a string of its own  *)
(* (StrPtr).                                                               *)
(* ---------------------------------------------------------------------- *)

BoolPtr(b) == [new |-> b]

AddrOf(field) == [field |-> field]

StrPtr(str) == [addr |-> "heap", str |-> str]

\* *p for a *bool p of the StyleAttributes sa
Deref(sa, p) == IF "field" \in DOMAIN p THEN sa[p.field] ELSE p.new

\* the package's pointers that mark bold, italic and underlined TTML text
ttmlFontWeightBold == [addr |-> "ttmlFontWeightBold"]

ttmlFontStyleItalic == [addr |-> "ttmlFontStyleItalic"]

ttmlTextDecorationUnderline == [addr |-> "ttmlTextDecorationUnderline"]

JustificationUnchanged == 1
JustificationLeft == 2
JustificationCentered == 3
JustificationRight == 4

\* the fields of StyleAttributes the propagation functions read or write
BoolFields ==
    {"SRTBold", "SRTItalic", "SRTUnderline", "WebVTTBold", "WebVTTItalics", "WebVTTUnderline"}

PointerFields ==
    {"SSABold", "SSAItalic", "SSAUnderline", "STLItalics", "STLJustification",
     "STLPosition", "STLUnderline", "TeletextColor", "TTMLColor", "TTMLExtent",
     "TTMLFontStyle", "TTMLFontWeight", "TTMLOrigin", "TTMLTextAlign",
     "TTMLTextDecoration", "TTMLWritingMode"}

StringFields ==
    {"WebVTTAlign", "WebVTTLine", "WebVTTPosition", "WebVTTRegionAnchor", "WebVTTScroll",
     "WebVTTSize", "WebVTTViewportAnchor", "WebVTTWidth"}

IntFields == {"WebVTTLines"}

StyleFields == BoolFields \cup PointerFields \cup StringFields \cup IntFields

\* &StyleAttributes{}: every field has its zero value
StyleAttributes ==
    [f \in StyleFields |->
        IF f \in BoolFields THEN FALSE
        ELSE IF f \in PointerFields THEN Nil
        ELSE IF f \in IntFields THEN 0
        ELSE <<>>]

HexDigit == Digit \o <<"a", "b", "c", "d", "e", "f">>

\* Color.TTMLString: fmt.Sprintf("%.6x", Red<<16 | Green<<8 | Blue)
RECURSIVE Hex(_)
Hex(n) == IF n < 16 THEN <<HexDigit[n + 1]>> ELSE Hex(n \div 16) \o <<HexDigit[(n % 16) + 1]>>

TTMLString(c) == ZeroPad(Hex(c.Red * 65536 + c.Green * 256 + c.Blue), 6)

\* StyleAttributes.propagateSRTAttributes
propagateSRTAttributes(sa) ==
    LET a == IF sa.SRTBold
             THEN [sa EXCEPT !.SSABold = AddrOf("SRTBold"),
                             !.TTMLFontWeight = ttmlFontWeightBold,
                             !.WebVTTBold = sa.SRTBold]
             ELSE sa
        b == IF a.SRTItalic
             THEN [a EXCEPT !.SSAItalic = AddrOf("SRTItalic"),
                            !.STLItalics = AddrOf("SRTItalic"),
                            !.TTMLFontStyle = ttmlFontStyleItalic,
                            !.WebVTTItalics = a.SRTItalic]
             ELSE a
    IN IF b.SRTUnderline
       THEN [b EXCEPT !.SSAUnderline = AddrOf("SRTUnderline"),
                      !.STLUnderline = AddrOf("SRTUnderline"),
                      !.TTMLTextDecoration = ttmlTextDecorationUnderline,
                      !.WebVTTUnderline = b.SRTUnderline]
       ELSE b

\* sa.srt = *p, then sa.webvtt = *p: the two assignments in their order
DerefInto(sa, p, srt, webvtt) ==
    LET a == [sa EXCEPT ![srt] = Deref(sa, p)]
    IN [a EXCEPT ![webvtt] = Deref(a, p)]

\* StyleAttributes.propagateSSAAttributes
propagateSSAAttributes(sa) ==
    LET a == IF sa.SSABold # Nil
             THEN [DerefInto(sa, sa.SSABold, "SRTBold", "WebVTTBold")
                        EXCEPT !.TTMLFontWeight = ttmlFontWeightBold]
             ELSE sa
        b == IF a.SSAItalic # Nil
             THEN [DerefInto(a, a.SSAItalic, "SRTItalic", "WebVTTItalics")
                        EXCEPT !.STLItalics = a.SSAItalic,
                               !.TTMLFontStyle = ttmlFontStyleItalic]
             ELSE a
    IN IF b.SSAUnderline # Nil
       THEN [DerefInto(b, b.SSAUnderline, "SRTUnderline", "WebVTTUnderline")
                  EXCEPT !.STLUnderline = b.SSAUnderline,
                         !.TTMLTextDecoration = ttmlTextDecorationUnderline]
       ELSE b

\* the WebVTTAlign and TTMLTextAlign of an STL justification
strCenter == <<"c", "e", "n", "t", "e", "r">>
strEnd == <<"e", "n", "d">>
strStart == <<"s", "t", "a", "r", "t">>

\* fmt.Sprintf("%d%%", n)
SprintfPercent(n) == Itoa(n) \o <<"%">>

\* StyleAttributes.propagateSTLAttributes
propagateSTLAttributes(sa) ==
    LET align == IF sa.STLJustification = Nil THEN <<>>
                 ELSE IF sa.STLJustification.new = JustificationCentered THEN strCenter
                 ELSE IF sa.STLJustification.new = JustificationRight THEN strEnd
                 ELSE IF sa.STLJustification.new = JustificationLeft THEN strStart
                 ELSE <<>>
        a == IF align # <<>>
             THEN [sa EXCEPT !.WebVTTAlign = align, !.TTMLTextAlign = StrPtr(align)]
             ELSE sa
        pos == a.STLPosition
        b == IF pos # Nil /\ pos.MaxRows > 0
             THEN [a EXCEPT !.WebVTTLine =
                        IF pos.MaxRows = 23 /\ pos.VerticalPosition > 0
                        THEN SprintfPercent(Quo((pos.VerticalPosition - 1) * 100, pos.MaxRows))
                        ELSE SprintfPercent(Quo(pos.VerticalPosition * 100, pos.MaxRows))]
             ELSE a
        c == IF b.STLItalics # Nil
             THEN [DerefInto(b, b.STLItalics, "SRTItalic", "WebVTTItalics")
                        EXCEPT !.SSAItalic = b.STLItalics,
                               !.TTMLFontStyle = ttmlFontStyleItalic]
             ELSE b
    IN IF c.STLUnderline # Nil
       THEN [DerefInto(c, c.STLUnderline, "SRTUnderline", "WebVTTUnderline")
                  EXCEPT !.SSAUnderline = c.STLUnderline,
                         !.TTMLTextDecoration = ttmlTextDecorationUnderline]
       ELSE c

\* Mutant of propagateTeletextAttributes: the "#" is put before the TTMLColor
\* the StyleAttributes has already.
propagateTeletextPrefixing(sa) ==
    IF sa.TeletextColor # Nil
    THEN [sa EXCEPT !.TTMLColor =
            StrPtr(<<"#">> \o (IF @ = Nil THEN TTMLString(sa.TeletextColor) ELSE @.str))]
    ELSE sa

\* StyleAttributes.propagateTeletextAttributes
propagateTeletextAttributes(sa) ==
    IF sa.TeletextColor # Nil
    THEN [sa EXCEPT !.TTMLColor = StrPtr(<<"#">> \o TTMLString(sa.TeletextColor))]
    ELSE sa

\* sa.TTMLWritingMode != nil && strings.HasPrefix(*sa.TTMLWritingMode, "tb")
WritesTopToBottom(sa) ==
    sa.TTMLWritingMode # Nil /\ HasPrefix(sa.TTMLWritingMode.str, <<"t", "b">>)

\* propagateTTMLAttributes, the region and cue settings of TTMLExtent
propagateTTMLExtent(sa) ==
    LET lineHeight == 5
        dimensions == Split(sa.TTMLExtent.str, <<" ">>)
        height == Atoi(ReplaceAll(dimensions[2], <<"%">>, <<>>))
    IN IF sa.TTMLExtent = Nil \/ Len(dimensions) <= 1 THEN sa
       ELSE [sa EXCEPT !.WebVTTWidth = dimensions[1],
                       !.WebVTTLines = IF height.err THEN @ ELSE Quo(height.v, lineHeight),
                       !.WebVTTSize = IF WritesTopToBottom(sa) THEN dimensions[1]
                                      ELSE dimensions[2]]

\* propagateTTMLAttributes, the region and cue settings of TTMLOrigin
propagateTTMLOrigin(sa) ==
    LET coordinates == Split(sa.TTMLOrigin.str, <<" ">>)
        a == [sa EXCEPT !.WebVTTRegionAnchor = <<"0", "%", ",", "0", "%">>,
                        !.WebVTTViewportAnchor =
                            ReplaceAll(TrimSpace(sa.TTMLOrigin.str), <<" ">>, <<",">>),
                        !.WebVTTScroll = <<"u", "p">>]
    IN IF sa.TTMLOrigin = Nil THEN sa
       ELSE IF Len(coordinates) <= 1 THEN a
       ELSE [a EXCEPT !.WebVTTLine = IF WritesTopToBottom(sa) THEN coordinates[2]
                                     ELSE coordinates[1],
                      !.WebVTTPosition = IF WritesTopToBottom(sa) THEN coordinates[1]
                                         ELSE coordinates[2]]

\* propagateTTMLAttributes, the font weight, font style and text decoration
propagateTTMLFont(sa) ==
    LET a == IF sa.TTMLFontWeight = ttmlFontWeightBold
             THEN [sa EXCEPT !.SRTBold = TRUE, !.SSABold = BoolPtr(TRUE),
                             !.WebVTTBold = TRUE]
             ELSE sa
        b == IF a.TTMLFontStyle = ttmlFontStyleItalic
             THEN [a EXCEPT !.SSAItalic = BoolPtr(TRUE), !.SRTItalic = TRUE,
                            !.STLItalics = BoolPtr(TRUE), !.WebVTTItalics = TRUE]
             ELSE a
    IN IF b.TTMLTextDecoration = ttmlTextDecorationUnderline
       THEN [b EXCEPT !.SRTUnderline = TRUE, !.SSAUnderline = BoolPtr(TRUE),
                      !.STLUnderline = BoolPtr(TRUE), !.WebVTTUnderline = TRUE]
       ELSE b

\* StyleAttributes.propagateTTMLAttributes
propagateTTMLAttributes(sa) ==
    LET a == IF sa.TTMLTextAlign # Nil
             THEN [sa EXCEPT !.WebVTTAlign = sa.TTMLTextAlign.str]
             ELSE sa
    IN propagateTTMLFont(propagateTTMLOrigin(propagateTTMLExtent(a)))

\* StyleAttributes.propagateWebVTTAttributes
propagateWebVTTAttributes(sa) ==
    LET a == IF sa.WebVTTBold
             THEN [sa EXCEPT !.SRTBold = sa.WebVTTBold,
                             !.SSABold = AddrOf("WebVTTBold"),
                             !.TTMLFontWeight = ttmlFontWeightBold]
             ELSE sa
        b == IF a.WebVTTItalics
             THEN [a EXCEPT !.SSAItalic = AddrOf("WebVTTItalics"),
                            !.SRTItalic = a.WebVTTItalics,
                            !.STLItalics = AddrOf("WebVTTItalics"),
                            !.TTMLFontStyle = ttmlFontStyleItalic]
             ELSE a
    IN IF b.WebVTTUnderline
       THEN [b EXCEPT !.SRTUnderline = b.WebVTTUnderline,
                      !.SSAUnderline = AddrOf("WebVTTUnderline"),
                      !.STLUnderline = AddrOf("WebVTTUnderline"),
                      !.TTMLTextDecoration = ttmlTextDecorationUnderline]
       ELSE b

(* ---------------------------------------------------------------------- *)
(* The document state machine                                              *)
(* ---------------------------------------------------------------------- *)

VARIABLES
    mem,    \* the heap of Items: mem[p] is the Item pointer p points to
    s,      \* the Subtitles the operations are called on
    i,      \* the Subtitles last merged into s
    hist,   \* the operations applied so far, each with the state it was applied to
    sa,     \* the StyleAttributes the propagation functions are called on
    sahist, \* the propagation calls made so far, each with the value it was made on
    dtext,  \* the text of a duration: formatted, or read from a file
    dval,   \* the duration, as parseDuration returns it: [err, o]
    dhist,  \* the calls of the duration codec so far, each with the state before it
    wr,     \* the output a writer writes to, and the write calls made so far
    rd,     \* a reader: the lines of its input, its position and what it has parsed
    fg      \* a call of Fragment in progress: its argument and its fragment boundaries

docVars == <<mem, s, i, hist>>

styleVars == <<sa, sahist>>

durationVars == <<dtext, dval, dhist>>

ioVars == <<wr, rd>>

vars == <<docVars, styleVars, durationVars, ioVars, fg>>

\* the parts of the state a specification does not use stay as they start
DocIdle == mem = <<>> /\ s = NewSubtitles /\ i = NewSubtitles /\ hist = <<>>

StyleIdle == sa = StyleAttributes /\ sahist = <<>>

DurationIdle == dtext = <<>> /\ dval = [err |-> TRUE, o |-> 0] /\ dhist = <<>>

FragmentIdle == fg = [pc |-> "idle"]

IoIdle == wr = [out |-> <<>>, calls |-> <<>>] /\ rd = [codec |-> "", input |-> <<>>]

\* the times and texts of the items of the initial documents
TimeSet == {0, Second, 3 * Second, 7 * Second}

LinesOf(text) == <<Line(<<LineItem(text, Nil)>>)>>

TimedItems ==
    {Item(a, b, LinesOf(text), Nil, Nil) :
        <<a, b, text>> \in {x \in TimeSet \X TimeSet \X {"a", "b"} : x[1] <= x[2]}}

\* the regions and styles of the initial documents
r0 == Region("r0", Style("s2", "s"), "s")
r1 == Region("r1", Nil, "s")

StyledItems ==
    {Item(0, 0, lines, region, style) :
        <<lines, region, style>> \in
            {<<>>, LinesOf("a"), <<Line(<<LineItem("a", Style("s1", "s"))>>)>>}
            \X {Nil, r0, r1} \X {Nil, Style("s0", "s")}}

\* a document built from a sequence of items stored at mem[base+1..]
DocOf(base, n, cap, regions, styles) ==
    [Items |-> [elems |-> [k \in 1..n |-> base + k], cap |-> cap],
     Regions |-> regions, Styles |-> styles]

\* the capacities of a slice of n items: built by n appends, or by n + 1
\* appends and the removal of an item, which keeps the capacity
InitCaps(n) == {CapAfterAppends(n), CapAfterAppends(n + 1)}

InitTimed ==
    \E n \in 0..MaxItems : \E its \in [1..n -> TimedItems] :
    \E cap \in InitCaps(n) :
        /\ mem = its
        /\ s = DocOf(0, n, cap, <<>>, <<>>)

InitStyled ==
    \E n \in 0..MaxItems : \E its \in [1..n -> StyledItems] :
    \E regions \in SUBSET {r0, r1} :
        /\ mem = [k \in 1..n |-> [its[k] EXCEPT !.StartAt = (k - 1) * Second,
                                                !.EndAt = k * Second]]
        /\ s = DocOf(0, n, CapAfterAppends(n), MapOf(regions),
                     MapOf({Style(id, "s") : id \in {"s0", "s1", "s2", "s3"}}))

Init ==
    /\ InitTimed \/ InitStyled
    /\ i = NewSubtitles
    /\ hist = <<>>
    /\ StyleIdle
    /\ DurationIdle
    /\ IoIdle
    /\ FragmentIdle

\* the documents Merge is called with: their items, regions and styles
MergeArgs ==
    {[items |-> its, regions |-> {}, styles |-> {}] :
        its \in {<<>>,
                 <<Item(0, Second, LinesOf("a"), Nil, Nil)>>,
                 <<Item(3 * Second, 3 * Second, LinesOf("b"), Nil, Nil)>>,
                 <<Item(3 * Second, 7 * Second, LinesOf("a"), Nil, Nil),
                   Item(Second, 3 * Second, LinesOf("a"), Nil, Nil)>>}}
    \cup
    {[items |-> <<Item(Second, 3 * Second, LinesOf("b"), Region("r1", Nil, "i"), Style("s1", "i"))>>,
      regions |-> {Region("r1", Nil, "i"), Region("r2", Style("s4", "i"), "i")},
      styles |-> {Style("s1", "i"), Style("s4", "i")}]}

AddArgs == {-2 * Second, Second}

FragmentArgs == {2 * Second, 3 * Second + 1}

Did(name, arg) == Append(hist, [op |-> name, arg |-> arg, mem |-> mem, s |-> s, i |-> i])

DoOrder ==
    /\ Len(hist) < MaxOps
    /\ \E o \in Order(mem, s) : s' = o
    /\ hist' = Did("Order", 0)
    /\ UNCHANGED <<mem, i, styleVars, durationVars, ioVars, fg>>

DoAdd ==
    /\ Len(hist) < MaxOps
    /\ \E d \in AddArgs :
        LET r == Add(mem, s, d)
        IN /\ mem' = r.mem
           /\ s' = r.doc
           /\ hist' = Did("Add", d)
    /\ UNCHANGED <<i, styleVars, durationVars, ioVars, fg>>

DoFragment ==
    /\ Len(hist) < MaxOps
    /\ \E f \in FragmentArgs : \E r \in Fragment(mem, s, f) :
        /\ mem' = r.mem
        /\ s' = r.doc
        /\ hist' = Did("Fragment", f)
    /\ UNCHANGED <<i, styleVars, durationVars, ioVars, fg>>

DoUnfragment ==
    /\ Len(hist) < MaxOps
    /\ \E r \in Unfragment(mem, s) :
        /\ mem' = r.mem
        /\ s' = r.doc
    /\ hist' = Did("Unfragment", 0)
    /\ UNCHANGED <<i, styleVars, durationVars, ioVars, fg>>

DoMerge ==
    /\ Len(hist) < MaxOps
    /\ \E a \in MergeArgs :
        LET n == Len(a.items)
            idoc == DocOf(Len(mem), n, n, MapOf(a.regions), MapOf(a.styles))
        IN /\ mem' = mem \o a.items
           /\ i' = idoc
           /\ \E o \in Merge(mem', s, idoc) : s' = o
           /\ hist' = Did("Merge", 0)
    /\ UNCHANGED <<styleVars, durationVars, ioVars, fg>>

DoOptimize ==
    /\ Len(hist) < MaxOps
    /\ s' = Optimize(mem, s)
    /\ hist' = Did("Optimize", 0)
    /\ UNCHANGED <<mem, i, styleVars, durationVars, ioVars, fg>>

DoRemoveStyling ==
    /\ Len(hist) < MaxOps
    /\ LET r == RemoveStyling(mem, s)
       IN /\ mem' = r.mem
          /\ s' = r.doc
    /\ hist' = Did("RemoveStyling", 0)
    /\ UNCHANGED <<i, styleVars, durationVars, ioVars, fg>>

Next ==
    DoOrder \/ DoAdd \/ DoFragment \/ DoUnfragment \/ DoMerge \/ DoOptimize \/ DoRemoveStyling

Spec == Init /\ [][Next]_vars

(* ---------------------------------------------------------------------- *)
(* The state machine of the operations that change the times of the items  *)
(* ---------------------------------------------------------------------- *)

InitTimes ==
    /\ InitTimed
    /\ i = NewSubtitles
    /\ hist = <<>>
    /\ StyleIdle
    /\ DurationIdle
    /\ IoIdle
    /\ FragmentIdle

\* the arguments of ForceDuration: half a millisecond is 1
ForceDurationArgs == {-Second, 0, 1, 2 * Second, 10 * Second} \X BOOLEAN

\* the arguments of ApplyLinearCorrection (actual1, desired1, actual2, desired2):
\* a = 1.5 and b = 0.5s, a = 1 and b = -1s, a = 2 and b = 0, a = -1 and b = 7s
ApplyLinearCorrectionArgs ==
    {<<3 * Second, 5 * Second, 5 * Second, 8 * Second>>,
     <<Second, 0, 3 * Second, 2 * Second>>,
     <<0, 0, Second, 2 * Second>>,
     <<0, 7 * Second, 7 * Second, 0>>}

\* the arguments of Trim (from, to)
TrimArgs == {<<0, 3 * Second>>, <<Second, 7 * Second>>, <<3 * Second, Second>>}

DoForceDuration ==
    /\ Len(hist) < MaxOps
    /\ \E a \in ForceDurationArgs :
        LET r == ForceDuration(mem, s, a[1], a[2])
        IN /\ mem' = r.mem
           /\ s' = r.doc
           /\ hist' = Did("ForceDuration", [d |-> a[1], addDummyItem |-> a[2]])
    /\ UNCHANGED <<i, styleVars, durationVars, ioVars, fg>>

DoApplyLinearCorrection ==
    /\ Len(hist) < MaxOps
    /\ \E a \in ApplyLinearCorrectionArgs :
        LET r == ApplyLinearCorrection(mem, s, a[1], a[2], a[3], a[4])
        IN /\ mem' = r.mem
           /\ s' = r.doc
           /\ hist' = Did("ApplyLinearCorrection", a)
    /\ UNCHANGED <<i, styleVars, durationVars, ioVars, fg>>

DoTrim ==
    /\ Len(hist) < MaxOps
    /\ \E a \in TrimArgs :
        /\ s' = Trim(mem, s, a[1], a[2])
        /\ hist' = Did("Trim", [from |-> a[1], to |-> a[2]])
    /\ UNCHANGED <<mem, i, styleVars, durationVars, ioVars, fg>>

NextTimes ==
    DoAdd \/ DoForceDuration \/ DoFragment \/ DoUnfragment \/ DoApplyLinearCorrection \/ DoTrim

SpecTimes == InitTimes /\ [][NextTimes]_vars

(* ---------------------------------------------------------------------- *)
(* The propagation state machine                                           *)
(* ---------------------------------------------------------------------- *)

\* Propagation calls made in a row on one StyleAttributes.
MaxCalls == 3

\* &StyleAttributes{...}: the fields of the record f set, the others zero
StyleWith(f) == [k \in StyleFields |-> IF k \in DOMAIN f THEN f[k] ELSE StyleAttributes[k]]

BoolPtrs == {Nil, BoolPtr(FALSE), BoolPtr(TRUE)}

\* the StyleAttributes a parser hands over, by the group of fields it has set
BoldInputs ==
    {StyleWith([SRTBold |-> a, SSABold |-> b, TTMLFontWeight |-> c, WebVTTBold |-> d]) :
        a \in BOOLEAN, b \in BoolPtrs,
        c \in {Nil, ttmlFontWeightBold, StrPtr(<<"b", "o", "l", "d">>)}, d \in BOOLEAN}

ItalicInputs ==
    {StyleWith([SRTItalic |-> a, SSAItalic |-> b, STLItalics |-> c, TTMLFontStyle |-> d,
                WebVTTItalics |-> e]) :
        a \in BOOLEAN, b \in BoolPtrs, c \in BoolPtrs,
        d \in {Nil, ttmlFontStyleItalic, StrPtr(<<"i", "t", "a", "l", "i", "c">>)},
        e \in BOOLEAN}

UnderlineInputs ==
    {StyleWith([SRTUnderline |-> a, SSAUnderline |-> b, STLUnderline |-> c,
                TTMLTextDecoration |-> d, WebVTTUnderline |-> e]) :
        a \in BOOLEAN, b \in BoolPtrs, c \in BoolPtrs,
        d \in {Nil, ttmlTextDecorationUnderline,
               StrPtr(<<"u", "n", "d", "e", "r", "l", "i", "n", "e">>)},
        e \in BOOLEAN}

AlignInputs ==
    {StyleWith([STLJustification |-> a, TTMLTextAlign |-> b, WebVTTAlign |-> c]) :
        a \in {Nil} \cup {[new |-> j] : j \in JustificationUnchanged..JustificationRight},
        b \in {Nil, StrPtr(strCenter)}, c \in {<<>>, strStart}}

PositionInputs ==
    {StyleWith([STLPosition |-> a, TTMLOrigin |-> b, TTMLWritingMode |-> c,
                TTMLExtent |-> d]) :
        a \in {Nil, [VerticalPosition |-> 12, MaxRows |-> 23, Rows |-> 0],
               [VerticalPosition |-> 3, MaxRows |-> 0, Rows |-> 0],
               [VerticalPosition |-> 10, MaxRows |-> 20, Rows |-> 0]},
        b \in {Nil, StrPtr(<<"1", "0", "%", " ", "2", "0", "%">>),
               StrPtr(<<" ", "1", "0", "%", " ", "2", "0", "%">>)},
        c \in {Nil, StrPtr(<<"t", "b">>), StrPtr(<<"l", "r">>)},
        d \in {Nil, StrPtr(<<"8", "0", "%", " ", "1", "0", "%">>), StrPtr(<<"5", "0", "%">>)}}

ColorInputs ==
    {StyleWith([TeletextColor |-> a, TTMLColor |-> b]) :
        a \in {Nil, [Alpha |-> 0, Blue |-> 255, Green |-> 0, Red |-> 18],
               [Alpha |-> 0, Blue |-> 0, Green |-> 0, Red |-> 0]},
        b \in {Nil, StrPtr(<<"#", "f", "f", "f", "f", "f", "f">>)}}

InitStyle ==
    /\ sa \in BoldInputs \cup ItalicInputs \cup UnderlineInputs \cup AlignInputs
                \cup PositionInputs \cup ColorInputs
    /\ sahist = <<>>
    /\ DocIdle
    /\ DurationIdle
    /\ IoIdle
    /\ FragmentIdle

Called(name) == Append(sahist, [op |-> name, sa |-> sa])

DoPropagateSRT ==
    /\ Len(sahist) < MaxCalls
    /\ sa' = propagateSRTAttributes(sa)
    /\ sahist' = Called("SRT")
    /\ UNCHANGED <<docVars, durationVars, ioVars, fg>>

DoPropagateSSA ==
    /\ Len(sahist) < MaxCalls
    /\ sa' = propagateSSAAttributes(sa)
    /\ sahist' = Called("SSA")
    /\ UNCHANGED <<docVars, durationVars, ioVars, fg>>

DoPropagateSTL ==
    /\ Len(sahist) < MaxCalls
    /\ sa' = propagateSTLAttributes(sa)
    /\ sahist' = Called("STL")
    /\ UNCHANGED <<docVars, durationVars, ioVars, fg>>

DoPropagateTeletext ==
    /\ Len(sahist) < MaxCalls
    /\ sa' = propagateTeletextAttributes(sa)
    /\ sahist' = Called("Teletext")
    /\ UNCHANGED <<docVars, durationVars, ioVars, fg>>

DoPropagateTTML ==
    /\ Len(sahist) < MaxCalls
    /\ sa' = propagateTTMLAttributes(sa)
    /\ sahist' = Called("TTML")
    /\ UNCHANGED <<docVars, durationVars, ioVars, fg>>

DoPropagateWebVTT ==
    /\ Len(sahist) < MaxCalls
    /\ sa' = propagateWebVTTAttributes(sa)
    /\ sahist' = Called("WebVTT")
    /\ UNCHANGED <<docVars, durationVars, ioVars, fg>>

NextStyle ==
    \/ DoPropagateSRT \/ DoPropagateSSA \/ DoPropagateSTL
    \/ DoPropagateTeletext \/ DoPropagateTTML \/ DoPropagateWebVTT

SpecStyle == InitStyle /\ [][NextStyle]_vars

(* ---------------------------------------------------------------------- *)
(* The duration codec state machine                                        *)
(* ---------------------------------------------------------------------- *)

\* Calls of the duration codec made in a row.
MaxCodecCalls == 3

\* the separators and the numbers of millisecond digits the codecs use
Separators == {<<",">>, <<".">>, <<":">>}

Widths == {2, 3}

Codecs == {"srt", "ssa", "webvtt"}

\* the durations a Document holds
DurationSet ==
    {0, 1, Millisecond, 10 * Millisecond, 230 * Millisecond, 999 * Millisecond,
     Second + 234 * Millisecond, 59 * Second + 990 * Millisecond,
     Minute + Second + 15 * Millisecond,
     Hour + 23 * Minute + 45 * Second + 670 * Millisecond,
     100 * Hour + 450 * Millisecond, -50 * Millisecond}

\* the times a file holds
FileTimes ==
    {h \o <<":", "0", "0", ":", "0", "1">> \o sep \o digits :
        h \in {<<"0">>, <<"0", "1">>}, sep \in Separators,
        digits \in {<<"2", "3">>, <<"2", "3", "4">>, <<"9">>, <<"-", "5", "0">>}}
    \cup {<<"0", "0", ":", "0", "7">>,
          <<" ", "0", "0", ":", "0", "0", ":", "0", "1", ",", "0", "0", "0", " ">>}

InitDuration ==
    /\ \/ dtext = <<>> /\ dval \in {[err |-> FALSE, o |-> d] : d \in DurationSet}
       \/ dtext \in FileTimes /\ dval = [err |-> TRUE, o |-> 0]
    /\ dhist = <<>>
    /\ DocIdle
    /\ StyleIdle
    /\ IoIdle
    /\ FragmentIdle

CodecCalled(name, sep, w, codec) ==
    Append(dhist, [op |-> name, sep |-> sep, w |-> w, codec |-> codec,
                   text |-> dtext, val |-> dval])

\* formatDuration(dval, sep, w)
DoFormatDuration ==
    /\ Len(dhist) < MaxCodecCalls
    /\ ~dval.err
    /\ \E sep \in Separators : \E w \in Widths :
        /\ dtext' = formatDuration(dval.o, sep, w)
        /\ dhist' = CodecCalled("formatDuration", sep, w, "")
    /\ UNCHANGED <<dval, docVars, styleVars, ioVars, fg>>

\* parseDuration(dtext, sep, w)
DoParseDuration ==
    /\ Len(dhist) < MaxCodecCalls
    /\ Len(dtext) > 0
    /\ \E sep \in Separators : \E w \in Widths :
        /\ dval' = parseDuration(dtext, sep, w)
        /\ dhist' = CodecCalled("parseDuration", sep, w, "")
    /\ UNCHANGED <<dtext, docVars, styleVars, ioVars, fg>>

\* a codec's parser reads a time of the file
DoRead ==
    /\ Len(dhist) < MaxCodecCalls
    /\ Len(dtext) > 0
    /\ \E codec \in Codecs :
        /\ dval' = CASE codec = "srt" -> parseDurationSRT(dtext)
                     [] codec = "ssa" -> parseDurationSSA(dtext)
                     [] codec = "webvtt" -> parseDurationWebVTT(dtext)
        /\ dhist' = CodecCalled("read", <<>>, 0, codec)
    /\ UNCHANGED <<dtext, docVars, styleVars, ioVars, fg>>

\* a codec's writer writes a time of the Document
DoWrite ==
    /\ Len(dhist) < MaxCodecCalls
    /\ ~dval.err
    /\ \E codec \in Codecs :
        /\ dtext' = CASE codec = "srt" -> formatDurationSRT(dval.o)
                      [] codec = "ssa" -> formatDurationSSA(dval.o)
                      [] codec = "webvtt" -> formatDurationWebVTT(dval.o)
        /\ dhist' = CodecCalled("write", <<>>, 0, codec)
    /\ UNCHANGED <<dval, docVars, styleVars, ioVars, fg>>

NextDuration == DoFormatDuration \/ DoParseDuration \/ DoRead \/ DoWrite

SpecDuration == InitDuration /\ [][NextDuration]_vars

(* ---------------------------------------------------------------------- *)
(* The writers.  A writer yields [err, written]: the error it returns ("" *)
(* for nil) and the byte strings it hands to the io.Writer, in order.  Of  *)
(* what is written for a Document with items the model keeps the blocks,   *)
(* the indexes, the times and the texts.                                   *)
(* ---------------------------------------------------------------------- *)

ErrNoSubtitlesToWrite == "astisub: no subtitles to write"

BytesBOM == <<"BOM">>

bytesLineSeparator == <<"\n">>

bytesTimeBoundariesSeparator == <<" ", "-", "-", ">", " ">>

RECURSIVE Flatten(_)
Flatten(qs) == IF Len(qs) = 0 THEN <<>> ELSE qs[1] \o Flatten(Tail(qs))

\* the lines of an item, each followed by a line separator
WrittenLines(it) ==
    Flatten([l \in DOMAIN it.Lines |-> <<<<LineString(it.Lines[l])>>, bytesLineSeparator>>])

\* WriteToSRT, the loop through the subtitles
WrittenSRTItems(m, elems) ==
    Flatten([k \in DOMAIN elems |->
        <<Itoa(k), bytesLineSeparator,
          formatDurationSRT(m[elems[k]].StartAt), bytesTimeBoundariesSeparator,
          formatDurationSRT(m[elems[k]].EndAt), bytesLineSeparator>>
        \o WrittenLines(m[elems[k]])
        \o (IF k < Len(elems) THEN <<bytesLineSeparator>> ELSE <<>>)])

\* Mutant of WriteToSRT: the BOM is written before the items are counted.
WriteToSRTBomFirst(m, d) ==
    IF Len(d.Items.elems) = 0
    THEN [err |-> ErrNoSubtitlesToWrite, written |-> <<BytesBOM>>]
    ELSE [err |-> "", written |-> <<BytesBOM>> \o WrittenSRTItems(m, d.Items.elems)]

\* Subtitles.WriteToSRT
WriteToSRT(m, d) ==
    IF Len(d.Items.elems) = 0
    THEN [err |-> ErrNoSubtitlesToWrite, written |-> <<>>]
    ELSE [err |-> "", written |-> <<BytesBOM>> \o WrittenSRTItems(m, d.Items.elems)]

\* Subtitles.WriteToSSA: the script info block, the styles block when there
\* are styles, the events block
WriteToSSA(m, d) ==
    IF Len(d.Items.elems) = 0
    THEN [err |-> ErrNoSubtitlesToWrite, written |-> <<>>]
    ELSE [err |-> "",
          written |->
            <<<<"[Script Info]">>>>
            \o (IF DOMAIN d.Styles # {} THEN <<<<"[V4 Styles]">>>> ELSE <<>>)
            \o <<<<"[Events]">> \o
                 Flatten([k \in DOMAIN d.Items.elems |->
                    <<"Dialogue: ">> \o formatDurationSSA(m[d.Items.elems[k]].StartAt)
                    \o <<",">> \o formatDurationSSA(m[d.Items.elems[k]].EndAt)
                    \o <<",", ItemString(m[d.Items.elems[k]]), "\n">>])>>]

\* Subtitles.WriteToSTL: the GSI block, then one TTI block for each item
WriteToSTL(m, d) ==
    IF Len(d.Items.elems) = 0
    THEN [err |-> ErrNoSubtitlesToWrite, written |-> <<>>]
    ELSE [err |-> "",
          written |-> <<<<"GSI">>>> \o
            [k \in DOMAIN d.Items.elems |->
                <<"TTI">> \o Itoa(k) \o <<ItemString(m[d.Items.elems[k]])>>]]

\* Subtitles.WriteToTTML: the document is encoded and written as a whole
WriteToTTML(m, d) ==
    IF Len(d.Items.elems) = 0
    THEN [err |-> ErrNoSubtitlesToWrite, written |-> <<>>]
    ELSE [err |-> "",
          written |-> <<<<"<tt>">> \o
            Flatten([k \in DOMAIN d.Items.elems |->
                <<"<p>", ItemString(m[d.Items.elems[k]]), "</p>">>])
            \o <<"</tt>">>>>]

\* the arguments of WriteToWebVTT are values of any type
IsWriter(arg) == arg = "io.Writer"

IsBool(arg) == arg \in {"true", "false"}

\* WriteToWebVTT, the loop through the items; an Item of the model has the
\* Index 0
WrittenWebVTTItems(m, elems, writeWithIndex) ==
    Flatten([k \in DOMAIN elems |->
        <<IF writeWithIndex THEN Itoa(0) ELSE Itoa(k), bytesLineSeparator,
          formatDurationWebVTT(m[elems[k]].StartAt), bytesTimeBoundariesSeparator,
          formatDurationWebVTT(m[elems[k]].EndAt), bytesLineSeparator>>
        \o WrittenLines(m[elems[k]])
        \o (IF k < Len(elems) THEN <<bytesLineSeparator>> ELSE <<>>)])

\* Subtitles.WriteToWebVTT(args...): the first argument has to be the
\* io.Writer and the second, when there is one, a bool.  Without an io.Writer
\* the buffered writer of a Document with items has nothing to flush into.
WriteToWebVTT(m, d, args) ==
    IF Len(args) >= 1 /\ ~IsWriter(args[1])
    THEN [err |-> "first input argument must be io.Writer", written |-> <<>>]
    ELSE IF Len(args) >= 2 /\ ~IsBool(args[2])
    THEN [err |-> "second input argument must be boolean", written |-> <<>>]
    ELSE IF Len(d.Items.elems) = 0
    THEN [err |-> ErrNoSubtitlesToWrite, written |-> <<>>]
    ELSE IF Len(args) = 0
    THEN [err |-> "panic", written |-> <<>>]
    ELSE [err |-> "",
          written |-> <<<<"W", "E", "B", "V", "T", "T">>, <<"\n", "\n">>>>
            \o WrittenWebVTTItems(m, d.Items.elems, Len(args) >= 2 /\ args[2] = "true")]

(* ---------------------------------------------------------------------- *)
(* The state machine of the writers                                        *)
(* ---------------------------------------------------------------------- *)

\* Calls of the writers made in a row.
MaxWrites == 2

\* the arguments WriteToWebVTT is called with
WebVTTArgs ==
    {<<>>, <<"io.Writer">>, <<"io.Writer", "true">>, <<"io.Writer", "false">>,
     <<"io.Writer", "1">>, <<"file.vtt">>}

\* the io.Writer holds what was written to it before
InitWrite ==
    /\ InitTimed
    /\ i = NewSubtitles
    /\ hist = <<>>
    /\ wr \in {[out |-> o, calls |-> <<>>] : o \in {<<>>, <<<<"x">>>>}}
    /\ rd = [codec |-> "", input |-> <<>>]
    /\ StyleIdle
    /\ DurationIdle
    /\ FragmentIdle

\* a call of a writer: what it returns, and what the io.Writer holds afterwards
Written(name, args, r) ==
    [out |-> wr.out \o r.written,
     calls |-> Append(wr.calls, [writer |-> name, args |-> args, err |-> r.err, out |-> wr.out])]

DoWriteToSRT ==
    /\ Len(wr.calls) < MaxWrites
    /\ wr' = Written("WriteToSRT", <<"io.Writer">>, WriteToSRT(mem, s))
    /\ UNCHANGED <<rd, docVars, styleVars, durationVars, fg>>

DoWriteToSSA ==
    /\ Len(wr.calls) < MaxWrites
    /\ wr' = Written("WriteToSSA", <<"io.Writer">>, WriteToSSA(mem, s))
    /\ UNCHANGED <<rd, docVars, styleVars, durationVars, fg>>

DoWriteToSTL ==
    /\ Len(wr.calls) < MaxWrites
    /\ wr' = Written("WriteToSTL", <<"io.Writer">>, WriteToSTL(mem, s))
    /\ UNCHANGED <<rd, docVars, styleVars, durationVars, fg>>

DoWriteToTTML ==
    /\ Len(wr.calls) < MaxWrites
    /\ wr' = Written("WriteToTTML", <<"io.Writer">>, WriteToTTML(mem, s))
    /\ UNCHANGED <<rd, docVars, styleVars, durationVars, fg>>

DoWriteToWebVTT ==
    /\ Len(wr.calls) < MaxWrites
    /\ \E args \in WebVTTArgs :
        wr' = Written("WriteToWebVTT", args, WriteToWebVTT(mem, s, args))
    /\ UNCHANGED <<rd, docVars, styleVars, durationVars, fg>>

NextWrite ==
    DoWriteToSRT \/ DoWriteToSSA \/ DoWriteToSTL \/ DoWriteToTTML \/ DoWriteToWebVTT

SpecWrite == InitWrite /\ [][NextWrite]_vars

(* ---------------------------------------------------------------------- *)
(* Fragment, one pass of its loop over the fragments at a time            *)
(* ---------------------------------------------------------------------- *)

\* the width of time.Duration in this machine, in bits: 64 in the program
DurationBits == 16

RECURSIVE Pow2(_)
Pow2(n) == IF n = 0 THEN 1 ELSE 2 * Pow2(n - 1)

\* the sum of two Durations: an int64 addition wraps around
WrapDuration(n) ==
    ((n + Pow2(DurationBits - 1)) % Pow2(DurationBits)) - Pow2(DurationBits - 1)

\* the fragment durations Fragment is called with
FragmentLoopArgs == {-Second, 0, 2 * Second}

InitFragmentLoop ==
    /\ InitTimed
    /\ i = NewSubtitles
    /\ hist = <<>>
    /\ \E f \in FragmentLoopArgs :
           fg = [pc |-> "start", f |-> f, fragmentStartAt |-> 0, fragmentEndAt |-> f]
    /\ StyleIdle
    /\ DurationIdle
    /\ IoIdle

\* Fragment is entered: with no items it returns at once
DoFragmentEnter ==
    /\ fg.pc = "start"
    /\ fg' = [fg EXCEPT !.pc = IF Len(s.Items.elems) = 0 THEN "done" ELSE "loop"]
    /\ UNCHANGED <<docVars, styleVars, durationVars, ioVars>>

\* one turn of the loop over the fragments: the loop over the items, then the
\* boundaries move by f
DoFragmentPass ==
    /\ fg.pc = "loop"
    /\ fg.fragmentStartAt < mem[s.Items.elems[Len(s.Items.elems)]].EndAt
    /\ LET r == FragmentRange(mem, s.Items, s.Items.elems, TRUE, 1, Len(s.Items.elems),
                              fg.fragmentStartAt, fg.fragmentEndAt)
       IN /\ mem' = r.mem
          /\ s' = [s EXCEPT !.Items = r.items]
    /\ fg' = [fg EXCEPT !.fragmentStartAt = WrapDuration(fg.fragmentStartAt + fg.f),
                        !.fragmentEndAt = WrapDuration(fg.fragmentEndAt + fg.f)]
    /\ UNCHANGED <<i, hist, styleVars, durationVars, ioVars>>

\* the loop over the fragments is left: the items are ordered and Fragment returns
DoFragmentOrder ==
    /\ fg.pc = "loop"
    /\ ~(fg.fragmentStartAt < mem[s.Items.elems[Len(s.Items.elems)]].EndAt)
    /\ \E o \in Order(mem, s) : s' = o
    /\ fg' = [fg EXCEPT !.pc = "done"]
    /\ UNCHANGED <<mem, i, hist, styleVars, durationVars, ioVars>>

NextFragmentLoop == DoFragmentEnter \/ DoFragmentPass \/ DoFragmentOrder

\* the program runs on: a turn of the loop that can be taken is taken
SpecFragmentLoop ==
    InitFragmentLoop /\ [][NextFragmentLoop]_vars /\ WF_vars(NextFragmentLoop)

(* ---------------------------------------------------------------------- *)
(* The readers of SRT and WebVTT                                          *)
(* ---------------------------------------------------------------------- *)

\* A line of the input, as the scanner returns it. A line of text is held as
\* the tokens the HTML tokenizer cuts it into; a line that contains "-->" is
\* held as the text before the arrow and the first field after it.
StartTag(name) == [t |-> "start", data |-> name, color |-> <<>>]

\* a font tag: color is the colour its color attribute parses to, <<>> when it
\* has no such attribute or the attribute does not parse
FontTag(color) == [t |-> "start", data |-> <<"f", "o", "n", "t">>, color |-> color]

EndTag(name) == [t |-> "end", data |-> name, color |-> <<>>]

TextToken(text) == [t |-> "text", data |-> text, color |-> <<>>]

TextLine(tokens) == [kind |-> "text", start |-> <<>>, end |-> <<>>, tokens |-> tokens]

TimeLine(start, end) == [kind |-> "time", start |-> start, end |-> end, tokens |-> <<>>]

\* the lines that start with "WEBVTT" (header), "NOTE " (note) and "STYLE" (style)
MarkLine(kind, text) ==
    [kind |-> kind, start |-> <<>>, end |-> <<>>, tokens |-> <<TextToken(text)>>]

\* the characters a token was cut from
TokenRaw(tok) ==
    IF tok.t = "text" THEN tok.data
    ELSE IF tok.t = "end" THEN <<"<", "/">> \o tok.data \o <<">">>
    ELSE <<"<">> \o tok.data \o <<">">>

\* the characters of a line of text
RECURSIVE LineRaw(_)
LineRaw(tokens) ==
    IF Len(tokens) = 0 THEN <<>> ELSE TokenRaw(Head(tokens)) \o LineRaw(Tail(tokens))

\* the characters of a line of the input
LineText(line) ==
    IF line.kind = "time" THEN line.start \o <<"-", "-", ">", " ">> \o line.end
    ELSE LineRaw(line.tokens)

\* Line.String, over the character sequences the readers hold
LineChars(l) == Join([k \in DOMAIN l.Items |-> l.Items[k].Text], <<" ">>)

\* an item as a reader builds it
ReadItem(startAt, endAt, index, lines) ==
    [StartAt |-> startAt, EndAt |-> endAt, Index |-> index, Lines |-> lines]

ReadLineItem(text, inlineStyle) == [Text |-> text, InlineStyle |-> inlineStyle]

\* the SRT attributes of a new StyleAttributes (a nil SRTColor is <<>>)
SRTStyleAttributes ==
    [SRTBold |-> FALSE, SRTColor |-> <<>>, SRTItalics |-> FALSE, SRTUnderline |-> FALSE]

\* parseTextSrt, the loop over the tokens: the opening and closing tags set
\* and clear the attributes of sa, a text that is not blank becomes a line
\* item which carries a copy of sa when one of its attributes is set
RECURSIVE parseTextSrtTokens(_, _, _)
parseTextSrtTokens(tokens, attrs, items) ==
    IF Len(tokens) = 0 THEN [Items |-> items, sa |-> attrs]
    ELSE LET tok == Head(tokens)
             name == tok.data
             cleared ==
                 IF name = <<"b">> THEN [attrs EXCEPT !.SRTBold = FALSE]
                 ELSE IF name = <<"i">> THEN [attrs EXCEPT !.SRTItalics = FALSE]
                 ELSE IF name = <<"u">> THEN [attrs EXCEPT !.SRTUnderline = FALSE]
                 ELSE IF name = <<"f", "o", "n", "t">> THEN [attrs EXCEPT !.SRTColor = <<>>]
                 ELSE attrs
             set ==
                 IF name = <<"b">> THEN [attrs EXCEPT !.SRTBold = TRUE]
                 ELSE IF name = <<"i">> THEN [attrs EXCEPT !.SRTItalics = TRUE]
                 ELSE IF name = <<"u">> THEN [attrs EXCEPT !.SRTUnderline = TRUE]
                 ELSE IF name = <<"f", "o", "n", "t">> /\ tok.color # <<>>
                      THEN [attrs EXCEPT !.SRTColor = tok.color]
                 ELSE attrs
             styled == attrs.SRTBold \/ attrs.SRTColor # <<>> \/ attrs.SRTItalics \/ attrs.SRTUnderline
         IN IF tok.t = "end" THEN parseTextSrtTokens(Tail(tokens), cleared, items)
            ELSE IF tok.t = "start" THEN parseTextSrtTokens(Tail(tokens), set, items)
            ELSE IF TrimSpace(tok.data) # <<>>
                 THEN parseTextSrtTokens(Tail(tokens), attrs,
                          Append(items, ReadLineItem(tok.data, IF styled THEN attrs ELSE Nil)))
            ELSE parseTextSrtTokens(Tail(tokens), attrs, items)

\* parseTextSrt: a blank line is one item with an empty text
parseTextSrt(tokens, attrs) ==
    IF TrimSpace(LineRaw(tokens)) = <<>>
    THEN [Items |-> <<ReadLineItem(<<>>, Nil)>>, sa |-> attrs]
    ELSE parseTextSrtTokens(tokens, attrs, <<>>)

\* ReadFromSRT, the removal of the empty items at the end of a line
RECURSIVE RemoveTrailingEmptyItems(_)
RemoveTrailingEmptyItems(items) ==
    IF Len(items) > 0 /\ Len(items[Len(items)].Text) = 0
    THEN RemoveTrailingEmptyItems(SubSeq(items, 1, Len(items) - 1))
    ELSE items

\* ReadFromSRT, the loop from the last line of the previous item to its first:
\* a line left without items cuts the lines at its position
RECURSIVE RemoveTrailingEmptyLines(_, _)
RemoveTrailingEmptyLines(lines, idx) ==
    IF idx = 0 THEN lines
    ELSE IF Len(lines[idx].Items) > 0
    THEN LET kept == RemoveTrailingEmptyItems(lines[idx].Items)
             trimmed == [lines EXCEPT ![idx] = Line(kept)]
         IN IF Len(kept) = 0
            THEN RemoveTrailingEmptyLines(SubSeq(trimmed, 1, idx - 1), idx - 1)
            ELSE RemoveTrailingEmptyLines(trimmed, idx - 1)
    ELSE RemoveTrailingEmptyLines(lines, idx - 1)

\* the state of ReadFromSRT before its first line: s is an item that is not
\* in o.Items, whose lines are lines0
NewSRTReader(input) ==
    [codec |-> "srt", input |-> input, pos |-> 0, err |-> "", header |-> TRUE,
     items |-> <<>>, lines0 |-> <<>>, blockName |-> "", comments |-> <<>>, index |-> 0,
     sa |-> SRTStyleAttributes, styles |-> FALSE]

\* the lines of the item s points to
CurrentLines(r) == IF Len(r.items) = 0 THEN r.lines0 ELSE r.items[Len(r.items)].Lines

SetCurrentLines(r, lines) ==
    IF Len(r.items) = 0 THEN [r EXCEPT !.lines0 = lines]
    ELSE [r EXCEPT !.items[Len(r.items)].Lines = lines]

\* ReadFromSRT, one turn of the loop over the lines
ScanSRT(r) ==
    LET line == r.input[r.pos + 1]
        read == [r EXCEPT !.pos = r.pos + 1]
        previous == CurrentLines(r)
        index == IF Len(previous) # 0 THEN LineChars(previous[Len(previous)]) ELSE <<>>
        popped == IF Len(previous) # 0 /\ index # <<>>
                  THEN SubSeq(previous, 1, Len(previous) - 1) ELSE previous
        cleaned == IF Len(popped) > 0
                   THEN RemoveTrailingEmptyLines(popped, Len(popped)) ELSE popped
        startAt == parseDurationSRT(line.start)
        endAt == parseDurationSRT(line.end)
        closed == [SetCurrentLines(read, cleaned) EXCEPT !.sa = SRTStyleAttributes]
        parsed == parseTextSrt(line.tokens, r.sa)
    IN IF line.kind = "time"
       THEN IF startAt.err \/ endAt.err
            THEN [closed EXCEPT !.err = "parsing srt duration failed"]
            ELSE [closed EXCEPT
                    !.items = Append(closed.items,
                                     ReadItem(startAt.o, endAt.o, Atoi(index).v, <<>>))]
       ELSE [(IF Len(parsed.Items) > 0
              THEN SetCurrentLines(read, Append(previous, Line(parsed.Items)))
              ELSE read) EXCEPT !.sa = parsed.sa]

\* the WebVTT attributes of a new StyleAttributes
WebVTTStyleAttributes == [WebVTTTags |-> <<>>, WebVTTStyles |-> <<>>]

WebVTTTag(name) == [Name |-> name]

\* parseTextWebVTT, the loop over the tokens: a closing tag pops the stack of
\* tags, an opening tag other than v pushes onto it, a text becomes a line
\* item which carries a copy of the stack when it is not empty
RECURSIVE parseTextWebVTTTokens(_, _, _)
parseTextWebVTTTokens(tokens, attrs, items) ==
    IF Len(tokens) = 0 THEN [Items |-> items, sa |-> attrs]
    ELSE LET tok == Head(tokens)
             tags == attrs.WebVTTTags
             popped == IF Len(tags) > 0
                       THEN [attrs EXCEPT !.WebVTTTags = SubSeq(tags, 1, Len(tags) - 1)]
                       ELSE attrs
             pushed == IF tok.data = <<"v">> THEN attrs
                       ELSE [attrs EXCEPT !.WebVTTTags = Append(tags, WebVTTTag(tok.data))]
             inlineStyle == IF Len(tags) > 0 THEN [WebVTTTags |-> tags] ELSE Nil
         IN IF tok.t = "end" THEN parseTextWebVTTTokens(Tail(tokens), popped, items)
            ELSE IF tok.t = "start" THEN parseTextWebVTTTokens(Tail(tokens), pushed, items)
            ELSE parseTextWebVTTTokens(Tail(tokens), attrs,
                     Append(items, ReadLineItem(tok.data, inlineStyle)))

parseTextWebVTT(tokens, attrs) == parseTextWebVTTTokens(tokens, attrs, <<>>)

\* the state of ReadFromWebVTT before its first line
NewWebVTTReader(input) ==
    [codec |-> "webvtt", input |-> input, pos |-> 0, err |-> "", header |-> FALSE,
     items |-> <<>>, lines0 |-> <<>>, blockName |-> "", comments |-> <<>>, index |-> 0,
     sa |-> WebVTTStyleAttributes, styles |-> FALSE]

\* o.Styles[webvttDefaultStyleID]: the style made at the first STYLE line, whose
\* InlineStyle is the StyleAttributes sa points to from then on
webvttDefaultStyle(r) ==
    IF r.styles THEN [ID |-> "astisub-webvtt-default-style-id", InlineStyle |-> r.sa]
    ELSE Nil

\* ReadFromWebVTT, one turn of its loops over the lines: the first loop skips
\* the lines up to the header, the second switches on the line
ScanWebVTT(r) ==
    LET line == r.input[r.pos + 1]
        read == [r EXCEPT !.pos = r.pos + 1]
        raw == TrimSpace(LineText(line))
        styles == r.sa.WebVTTStyles
        inCSS == r.blockName = "style" /\ Len(styles) > 0
                 /\ ~(Len(styles[Len(styles)]) > 0
                      /\ styles[Len(styles)][Len(styles[Len(styles)])] = "}")
        startAt == parseDurationWebVTT(line.start)
        endAt == parseDurationWebVTT(line.end)
        parsed == parseTextWebVTT(line.tokens, r.sa)
    IN IF ~r.header
       THEN IF line.kind = "header" THEN [read EXCEPT !.header = TRUE] ELSE read
       ELSE IF line.kind = "note"
       THEN [read EXCEPT !.blockName = "comment",
                         !.comments = Append(r.comments, SubSeq(raw, 6, Len(raw)))]
       ELSE IF Len(raw) = 0
       THEN [read EXCEPT !.blockName = IF inCSS THEN r.blockName ELSE "",
                         !.sa.WebVTTTags = <<>>]
       ELSE IF line.kind = "style"
       THEN [read EXCEPT !.blockName = "style",
                         !.sa = IF r.styles THEN r.sa ELSE WebVTTStyleAttributes,
                         !.styles = TRUE]
       ELSE IF line.kind = "time"
       THEN IF startAt.err \/ endAt.err
            THEN [read EXCEPT !.blockName = "text", !.index = 0,
                              !.err = "parsing webvtt duration failed"]
            ELSE [read EXCEPT !.blockName = "text", !.index = 0, !.comments = <<>>,
                              !.items = Append(r.items,
                                               ReadItem(startAt.o, endAt.o, r.index, <<>>))]
       ELSE IF r.blockName = "comment"
       THEN [read EXCEPT !.comments = Append(r.comments, raw)]
       ELSE IF r.blockName = "style"
       THEN [read EXCEPT !.sa.WebVTTStyles = Append(styles, raw)]
       ELSE IF r.blockName = "text"
       THEN [(IF Len(parsed.Items) > 0
              THEN SetCurrentLines(read, Append(CurrentLines(r), Line(parsed.Items)))
              ELSE read) EXCEPT !.sa = parsed.sa]
       ELSE [read EXCEPT !.index = Atoi(raw).v]

(* ---------------------------------------------------------------------- *)
(* The reader of SSA                                                      *)
(* ---------------------------------------------------------------------- *)

\* strings.HasSuffix
HasSuffix(q, suffix) ==
    Len(q) >= Len(suffix) /\ SubSeq(q, Len(q) - Len(suffix) + 1, Len(q)) = suffix

Uppers == <<"A", "B", "C", "D", "E", "F", "G", "H", "I", "J", "K", "L", "M", "N", "O", "P",
    "Q", "R", "S", "T", "U", "V", "W", "X", "Y", "Z">>

Lowers == <<"a", "b", "c", "d", "e", "f", "g", "h", "i", "j", "k", "l", "m", "n", "o", "p",
    "q", "r", "s", "t", "u", "v", "w", "x", "y", "z">>

\* strings.ToLower, over the letters A to Z
ToLower(q) ==
    [k \in DOMAIN q |->
        IF \E u \in DOMAIN Uppers : Uppers[u] = q[k]
        THEN Lowers[CHOOSE u \in DOMAIN Uppers : Uppers[u] = q[k]]
        ELSE q[k]]

ssaSectionNameEvents == "events"

ssaSectionNameScriptInfo == "script.info"

ssaSectionNameStyles == "styles"

ssaSectionNameUnknown == "unknown"

ssaEventCategoryDialogue == <<"D", "i", "a", "l", "o", "g", "u", "e">>

\* the state of ReadFromSSA before its first line: no section, a nil format
NewSSAReader(input) ==
    [codec |-> "ssa", input |-> input, pos |-> 0, err |-> "", done |-> FALSE,
     sectionName |-> "", format |-> <<>>, comments |-> <<>>, si |-> <<>>,
     ss |-> <<>>, es |-> <<>>, styles |-> <<>>, items |-> <<>>]

\* ssaScriptInfo.parse: the resolutions and the depth are integers, the other
\* headers it knows keep their content (of these the model has Title,
\* ScriptType, WrapStyle and Collisions; Timer is not among the headers of the
\* inputs)
ssaScriptInfoParse(si, header, content) ==
    IF header \in {<<"P", "l", "a", "y", "R", "e", "s", "X">>,
        <<"P", "l", "a", "y", "R", "e", "s", "Y">>,
        <<"P", "l", "a", "y", "D", "e", "p", "t", "h">>}
    THEN [err |-> IF Atoi(content).err THEN "atoi failed" ELSE "",
          si |-> Append(si, <<header, Atoi(content).v>>)]
    ELSE IF header \in {<<"T", "i", "t", "l", "e">>,
        <<"S", "c", "r", "i", "p", "t", "T", "y", "p", "e">>,
        <<"W", "r", "a", "p", "S", "t", "y", "l", "e">>,
        <<"C", "o", "l", "l", "i", "s", "i", "o", "n", "s">>}
    THEN [err |-> "", si |-> Append(si, <<header, content>>)]
    ELSE [err |-> "", si |-> si]

\* a new ssaStyle
NewSSAStyle ==
    [name |-> <<>>, fontName |-> <<>>, bold |-> Nil, italic |-> Nil, strikeout |-> Nil,
     underline |-> Nil, alignment |-> Nil, borderStyle |-> Nil, encoding |-> Nil,
     marginLeft |-> Nil, marginRight |-> Nil, marginVertical |-> Nil, outline |-> Nil,
     shadow |-> Nil, spacing |-> Nil]

\* the field of ssaStyle a name of the style format sets: booleans, integers
\* and strings (the colours and the floats are not named by the formats of
\* the inputs)
ssaStyleBools ==
    [name \in {<<"B", "o", "l", "d">>, <<"I", "t", "a", "l", "i", "c">>,
        <<"S", "t", "r", "i", "k", "e", "o", "u", "t">>,
        <<"U", "n", "d", "e", "r", "l", "i", "n", "e">>} |->
        IF name = <<"B", "o", "l", "d">> THEN "bold"
        ELSE IF name = <<"I", "t", "a", "l", "i", "c">> THEN "italic"
        ELSE IF name = <<"S", "t", "r", "i", "k", "e", "o", "u", "t">> THEN "strikeout"
        ELSE "underline"]

ssaStyleInts ==
    [name \in {<<"A", "l", "i", "g", "n", "m", "e", "n", "t">>,
        <<"B", "o", "r", "d", "e", "r", "S", "t", "y", "l", "e">>,
        <<"E", "n", "c", "o", "d", "i", "n", "g">>, <<"M", "a", "r", "g", "i", "n", "L">>,
        <<"M", "a", "r", "g", "i", "n", "R">>,
               <<"M", "a", "r", "g", "i", "n", "V">>, <<"O", "u", "t", "l", "i", "n", "e">>,
                   <<"S", "h", "a", "d", "o", "w">>, <<"S", "p", "a", "c", "i", "n", "g">>} |->
        IF name = <<"A", "l", "i", "g", "n", "m", "e", "n", "t">> THEN "alignment"
        ELSE IF name = <<"B", "o", "r", "d", "e", "r", "S", "t", "y", "l", "e">> THEN "borderStyle"
        ELSE IF name = <<"E", "n", "c", "o", "d", "i", "n", "g">> THEN "encoding"
        ELSE IF name = <<"M", "a", "r", "g", "i", "n", "L">> THEN "marginLeft"
        ELSE IF name = <<"M", "a", "r", "g", "i", "n", "R">> THEN "marginRight"
        ELSE IF name = <<"M", "a", "r", "g", "i", "n", "V">> THEN "marginVertical"
        ELSE IF name = <<"O", "u", "t", "l", "i", "n", "e">> THEN "outline"
        ELSE IF name = <<"S", "h", "a", "d", "o", "w">> THEN "shadow"
        ELSE "spacing"]

ssaStyleStrings ==
    [name \in {<<"F", "o", "n", "t", "n", "a", "m", "e">>,
        <<"N", "a", "m", "e">>} |-> IF name = <<"N", "a", "m", "e">> THEN "name" ELSE "fontName"]

\* newSSAStyleFromString, the loop over the items from the idx-th on
RECURSIVE newSSAStyleItems(_, _, _, _)
newSSAStyleItems(st, items, format, idx) ==
    IF idx > Len(items) THEN [err |-> "", o |-> st]
    ELSE IF idx > Len(format) THEN [err |-> "index not found in style format", o |-> st]
    ELSE LET attr == format[idx]
             item == items[idx]
         IN IF attr \in DOMAIN ssaStyleBools
            THEN newSSAStyleItems([st EXCEPT ![ssaStyleBools[attr]] = (item = <<"-", "1">>)],
                                  items, format, idx + 1)
            ELSE IF attr \in DOMAIN ssaStyleInts
            THEN IF Atoi(item).err THEN [err |-> "atoi failed", o |-> st]
                 ELSE newSSAStyleItems([st EXCEPT ![ssaStyleInts[attr]] = Atoi(item).v],
                                       items, format, idx + 1)
            ELSE IF attr \in DOMAIN ssaStyleStrings
            THEN newSSAStyleItems([st EXCEPT ![ssaStyleStrings[attr]] = item],
                                  items, format, idx + 1)
            ELSE newSSAStyleItems(st, items, format, idx + 1)

\* newSSAStyleFromString
newSSAStyleFromString(content, format) ==
    LET items == Split(content, <<",">>)
    IN IF Len(items) < Len(format)
       THEN [err |-> "content has fewer items than the style format", o |-> NewSSAStyle]
       ELSE newSSAStyleItems(NewSSAStyle, items, format, 1)

\* a new ssaEvent of a category
NewSSAEvent(category) ==
    [category |-> category, start |-> 0, end |-> 0, effect |-> <<>>, name |-> <<>>,
     style |-> <<>>, text |-> <<>>, layer |-> Nil, marginLeft |-> Nil,
     marginRight |-> Nil, marginVertical |-> Nil, marked |-> Nil]

\* the field of ssaEvent a name of the event format sets
ssaEventInts ==
    [name \in {<<"L", "a", "y", "e", "r">>, <<"M", "a", "r", "g", "i", "n", "L">>,
        <<"M", "a", "r", "g", "i", "n", "R">>, <<"M", "a", "r", "g", "i", "n", "V">>} |->
        IF name = <<"L", "a", "y", "e", "r">> THEN "layer"
        ELSE IF name = <<"M", "a", "r", "g", "i", "n", "L">> THEN "marginLeft"
        ELSE IF name = <<"M", "a", "r", "g", "i", "n", "R">> THEN "marginRight"
        ELSE "marginVertical"]

ssaEventStrings ==
    [name \in {<<"E", "f", "f", "e", "c", "t">>, <<"N", "a", "m", "e">>, <<"S", "t", "y", "l",
        "e">>,
        <<"T", "e", "x", "t">>} |->
        IF name = <<"E", "f", "f", "e", "c", "t">> THEN "effect"
        ELSE IF name = <<"N", "a", "m", "e">> THEN "name"
        ELSE IF name = <<"S", "t", "y", "l", "e">> THEN "style"
        ELSE "text"]

\* newSSAEventFromString, the loop over the items from the idx-th on
RECURSIVE newSSAEventItems(_, _, _, _)
newSSAEventItems(e, items, format, idx) ==
    IF idx > Len(items) THEN [err |-> "", o |-> e]
    ELSE IF idx > Len(format) THEN [err |-> "index not found in event format", o |-> e]
    ELSE LET attr == format[idx]
             item == items[idx]
             d == parseDurationSSA(item)
         IN IF attr \in {<<"S", "t", "a", "r", "t">>, <<"E", "n", "d">>}
            THEN IF d.err THEN [err |-> "parsing ssa duration failed", o |-> e]
                 ELSE newSSAEventItems(
                          IF attr = <<"E", "n", "d">> THEN [e EXCEPT !.end = d.o]
                          ELSE [e EXCEPT !.start = d.o],
                          items, format, idx + 1)
            ELSE IF attr \in DOMAIN ssaEventInts
            THEN IF Atoi(item).err THEN [err |-> "atoi failed", o |-> e]
                 ELSE newSSAEventItems([e EXCEPT ![ssaEventInts[attr]] = Atoi(item).v],
                                       items, format, idx + 1)
            ELSE IF attr \in DOMAIN ssaEventStrings
            THEN newSSAEventItems([e EXCEPT ![ssaEventStrings[attr]] = item],
                                  items, format, idx + 1)
            ELSE IF attr = <<"M", "a", "r", "k", "e", "d">>
            THEN newSSAEventItems([e EXCEPT !.marked = (item = <<"M", "a", "r", "k", "e", "d",
                "=", "1">>)],
                                  items, format, idx + 1)
            ELSE newSSAEventItems(e, items, format, idx + 1)

\* newSSAEventFromString, called with a format that is not empty: the items
\* from the last of the format on are one item
newSSAEventFromString(header, content, format) ==
    LET items == Split(content, <<",">>)
        n == Len(format)
        fixed == SubSeq(items, 1, n - 1) \o <<Join(SubSeq(items, n, Len(items)), <<",">>)>>
    IN IF Len(items) < n
       THEN [err |-> "content has fewer items than the event format",
             o |-> NewSSAEvent(header)]
       ELSE newSSAEventItems(NewSSAEvent(header), fixed, format, 1)

\* ReadFromSSA, a Format line: format[idx] is set for every index of the line
ssaFormat(format, content) ==
    LET names == Split(content, <<",">>)
    IN [k \in 1..(IF Len(format) > Len(names) THEN Len(format) ELSE Len(names)) |->
            IF k <= Len(names) THEN TrimSpace(names[k]) ELSE format[k]]

\* ReadFromSSA, a section line that keeps the format of the section before
ScanSSASectionKeepingFormat(r, name) ==
    IF name = <<"e", "v", "e", "n", "t", "s">> THEN [r EXCEPT !.sectionName = ssaSectionNameEvents]
    ELSE IF name = <<"s", "c", "r", "i", "p", "t", " ", "i", "n", "f",
        "o">> THEN [r EXCEPT !.sectionName = ssaSectionNameScriptInfo]
    ELSE IF name \in {<<"v", "4", " ", "s", "t", "y", "l", "e", "s">>,
        <<"v", "4", "+", " ", "s", "t", "y", "l", "e", "s">>,
        <<"v", "4", " ", "s", "t", "y", "l", "e", "s", "+">>}
    THEN [r EXCEPT !.sectionName = ssaSectionNameStyles]
    ELSE [r EXCEPT !.sectionName = ssaSectionNameUnknown]

\* ReadFromSSA, a section line: the sections of the events and of the styles
\* start with a new, empty format
ScanSSASection(r, name) ==
    IF name = <<"e", "v", "e", "n", "t", "s">>
    THEN [r EXCEPT !.sectionName = ssaSectionNameEvents, !.format = <<>>]
    ELSE IF name = <<"s", "c", "r", "i", "p", "t", " ", "i", "n", "f",
        "o">> THEN [r EXCEPT !.sectionName = ssaSectionNameScriptInfo]
    ELSE IF name \in {<<"v", "4", " ", "s", "t", "y", "l", "e", "s">>,
        <<"v", "4", "+", " ", "s", "t", "y", "l", "e", "s">>,
        <<"v", "4", " ", "s", "t", "y", "l", "e", "s", "+">>}
    THEN [r EXCEPT !.sectionName = ssaSectionNameStyles, !.format = <<>>]
    ELSE [r EXCEPT !.sectionName = ssaSectionNameUnknown]

\* ReadFromSSA, one turn of the loop over the lines
ScanSSA(r) ==
    LET line == TrimSpace(r.input[r.pos + 1])
        read == [r EXCEPT !.pos = r.pos + 1]
        split == Split(line, <<":">>)
        header == TrimSpace(split[1])
        content == TrimSpace(Join(Tail(split), <<":">>))
        info == ssaScriptInfoParse(r.si, header, content)
        event == newSSAEventFromString(header, content, r.format)
        style == newSSAStyleFromString(content, r.format)
    IN IF Len(line) = 0 THEN read
       ELSE IF HasPrefix(line, <<"[">>) /\ HasSuffix(line, <<"]">>)
       THEN ScanSSASection(read, ToLower(SubSeq(line, 2, Len(line) - 1)))
       ELSE IF r.sectionName = ssaSectionNameUnknown THEN read
       ELSE IF line[1] = ";"
       THEN [read EXCEPT !.comments = Append(r.comments, TrimSpace(Tail(line)))]
       ELSE IF Len(split) < 2
       THEN [read EXCEPT !.err = "line should contain at least one ':'"]
       ELSE IF r.sectionName = ssaSectionNameScriptInfo
       THEN IF info.err # ""
            THEN [read EXCEPT !.err = "parsing script info block failed", !.si = info.si]
            ELSE [read EXCEPT !.si = info.si]
       ELSE IF r.sectionName \in {ssaSectionNameEvents, ssaSectionNameStyles}
       THEN IF header = <<"F", "o", "r", "m", "a", "t">>
            THEN [read EXCEPT !.format = ssaFormat(r.format, content)]
            ELSE IF Len(r.format) = 0
            THEN [read EXCEPT !.err = "no format provided"]
            ELSE IF r.sectionName = ssaSectionNameEvents
            THEN IF event.err # ""
                 THEN [read EXCEPT !.err = "building new ssa event failed"]
                 ELSE [read EXCEPT !.es = Append(r.es, event.o)]
            ELSE IF style.err # ""
                 THEN [read EXCEPT !.err = "building new ssa style failed"]
                 ELSE [read EXCEPT !.ss = Append(r.ss, style.o)]
       ELSE read

\* ssaStyle.style: the Style of an ssaStyle, its name is its ID
ssaStyleStyle(st) == [ID |-> st.name, InlineStyle |-> [st EXCEPT !.name = <<>>]]

\* o.Styles[st.ID] = st, the map held as a sequence of styles of distinct IDs
SetStyle(styles, st) ==
    IF \E k \in DOMAIN styles : styles[k].ID = st.ID
    THEN [k \in DOMAIN styles |-> IF styles[k].ID = st.ID THEN st ELSE styles[k]]
    ELSE Append(styles, st)

RECURSIVE SetStyles(_, _)
SetStyles(styles, ss) ==
    IF Len(ss) = 0 THEN styles
    ELSE SetStyles(SetStyle(styles, ssaStyleStyle(Head(ss))), Tail(ss))

\* ssaRegexpEffect, "\\{[^\\{]+\\}": the ends of the matches that start at p, a
\* "{", then one character or more that are not "{", then a "}"
ssaEffectEnds(q, p) ==
    {e \in (p + 2)..Len(q) : q[e] = "}" /\ \A k \in (p + 1)..(e - 1) : q[k] # "{"}

\* ssaRegexpEffect.FindAllStringIndex(s, -1) from a position on: the matches
\* from left to right, each one the longest at the leftmost start, as <<first
\* character, last character>>
RECURSIVE ssaEffectMatches(_, _)
ssaEffectMatches(q, from) ==
    LET starts == {p \in from..Len(q) : q[p] = "{" /\ ssaEffectEnds(q, p) # {}}
        p == CHOOSE a \in starts : \A b \in starts : a <= b
        e == CHOOSE a \in ssaEffectEnds(q, p) : \A b \in ssaEffectEnds(q, p) : b <= a
    IN IF starts = {} THEN <<>> ELSE <<<<p, e>>>> \o ssaEffectMatches(q, e + 1)

\* ssaEvent.item, the loop through the matches: a line item for each effect,
\* with the text from the end of the effect to the next effect or to the end of
\* the line. At the first match lineItem is nil and nothing is appended
ssaEffectItems(q, matches) ==
    LET ends == [k \in DOMAIN matches |->
                    IF k < Len(matches) THEN matches[k + 1][1] - 1 ELSE Len(q)]
    IN [k \in DOMAIN matches |->
           ReadLineItem(SubSeq(q, matches[k][2] + 1, ends[k]),
                        [SSAEffect |-> SubSeq(q, matches[k][1], matches[k][2])])]

\* ssaEvent.item: the item of a dialogue, one line for each part of its text
\* between "\n"
ssaEventItem(e, styles) ==
    LET parts == [k \in DOMAIN Split(e.text, <<"\\", "n">>) |->
                     TrimSpace(Split(e.text, <<"\\", "n">>)[k])]
        found == {k \in DOMAIN styles : styles[k].ID = e.style}
    IN IF Len(e.style) > 0 /\ found = {}
       THEN [err |-> "style not found", o |-> Nil]
       ELSE [err |-> "",
             o |-> [StartAt |-> e.start, EndAt |-> e.end,
                    Style |-> IF Len(e.style) > 0 THEN e.style ELSE <<>>,
                    Lines |-> [k \in DOMAIN parts |->
                                  [VoiceName |-> e.name,
                                   Items |-> IF Len(ssaEffectMatches(parts[k], 1)) > 0
                                             THEN ssaEffectItems(parts[k],
                                                      ssaEffectMatches(parts[k], 1))
                                             ELSE <<ReadLineItem(parts[k], Nil)>>]]]]

\* ReadFromSSA, the loop through the events: it stops at the first dialogue
\* whose style is not found
RECURSIVE ssaItems(_, _, _)
ssaItems(es, styles, items) ==
    IF Len(es) = 0 THEN [err |-> "", items |-> items]
    ELSE IF Head(es).category # ssaEventCategoryDialogue
    THEN ssaItems(Tail(es), styles, items)
    ELSE IF ssaEventItem(Head(es), styles).err # ""
    THEN [err |-> ssaEventItem(Head(es), styles).err, items |-> items]
    ELSE ssaItems(Tail(es), styles, Append(items, ssaEventItem(Head(es), styles).o))

\* ReadFromSSA, after the loop over the lines
FinishSSA(r) ==
    LET styles == SetStyles(<<>>, r.ss)
        built == ssaItems(r.es, styles, <<>>)
    IN [r EXCEPT !.done = TRUE, !.styles = styles, !.items = built.items,
                 !.err = built.err]

\* the machine of the readers: a reader is given its input, then scans it line
\* by line until the input ends or a line is rejected
MaxLines == 5

Chars1 == <<"0", "0", ":", "0", "0", ":", "0", "1", ",", "0", "0", "0", " ">>

Chars2 == <<"0", "0", ":", "0", "0", ":", "0", "2", ".", "0", "0", "0">>

SRTLineSet ==
    {TimeLine(Chars1, Chars2),
     TimeLine(<<"x", " ">>, Chars2),
     TextLine(<<>>),
     TextLine(<<TextToken(<<"2">>)>>),
     TextLine(<<TextToken(<<"h", "i">>)>>),
     TextLine(<<StartTag(<<"b">>), TextToken(<<"h", "i">>)>>),
     TextLine(<<TextToken(<<"h", "i">>), EndTag(<<"b">>)>>),
     TextLine(<<FontTag(<<"#", "f", "f", "0", "0", "0", "0">>), TextToken(<<"h", "i">>), StartTag(<<"i">>)>>)}

WebVTTLineSet ==
    {MarkLine("header", <<"W", "E", "B", "V", "T", "T">>),
     MarkLine("note", <<"N", "O", "T", "E", " ", "n">>),
     MarkLine("style", <<"S", "T", "Y", "L", "E">>),
     TimeLine(Chars2, Chars2),
     TextLine(<<>>),
     TextLine(<<TextToken(<<"2">>)>>),
     TextLine(<<StartTag(<<"i">>), TextToken(<<"h", "i">>)>>),
     TextLine(<<TextToken(<<"h", "i">>), EndTag(<<"i">>)>>),
     TextLine(<<StartTag(<<"c">>), StartTag(<<"v">>), TextToken(<<"h", "i">>),
                EndTag(<<"v">>), TextToken(<<"y", "o">>), EndTag(<<"c">>)>>)}

MaxSSALines == 4

SSALineSet ==
    {<<>>,
     <<"[", "E", "v", "e", "n", "t", "s", "]">>,
     <<"[", "V", "4", "+", " ", "S", "t", "y", "l", "e", "s", "]">>,
     <<"[", "S", "c", "r", "i", "p", "t", " ", "I", "n", "f", "o", "]">>,
     <<"[", "F", "o", "n", "t", "s", "]">>,
     <<";", " ", "c">>,
     <<"x">>,
     <<"T", "i", "t", "l", "e", ":", " ", "t">>,
     <<"F", "o", "r", "m", "a", "t", ":", " ", "N", "a", "m", "e", ",", " ", "B", "o", "l", "d">>,
     <<"F", "o", "r", "m", "a", "t", ":", " ", "S", "t", "a", "r", "t", ",", " ", "E", "n",
         "d", ",", " ", "T", "e", "x", "t">>,
     <<"S", "t", "y", "l", "e", ":", " ", "s", "t", ",", "-", "1">>,
     <<"D", "i", "a", "l", "o", "g", "u", "e", ":", " ", "0", ":", "0", "0", ":", "0", "1",
         ".", "0", "0", ",", "0", ":", "0", "0", ":", "0", "2", ".", "0", "0", ",", "h", "i">>,
     <<"D", "i", "a", "l", "o", "g", "u", "e", ":", " ", "0", ":", "0", "0", ":", "0", "1",
         ".", "0", "0", ",", "0", ":", "0", "0", ":", "0", "2", ".", "0", "0", ",", "h", "i",
         "{", "e", "}", "y", "o", "\\", "n", "{", "f", "}", "{", "g", "}", "o", "k">>}

Inputs(lines) == UNION {[1..n -> lines] : n \in 0..MaxLines}

InitRead ==
    /\ DocIdle
    /\ wr = [out |-> <<>>, calls |-> <<>>]
    /\ \/ rd \in {NewSRTReader(input) : input \in Inputs(SRTLineSet)}
       \/ rd \in {NewWebVTTReader(input) : input \in Inputs(WebVTTLineSet)}
       \/ rd \in {NewSSAReader(input) :
                     input \in UNION {[1..n -> SSALineSet] : n \in 0..MaxSSALines}}
    /\ StyleIdle
    /\ DurationIdle
    /\ FragmentIdle

DoScanSRT ==
    /\ rd.codec = "srt"
    /\ rd.err = ""
    /\ rd.pos < Len(rd.input)
    /\ rd' = ScanSRT(rd)
    /\ UNCHANGED <<wr, docVars, styleVars, durationVars, fg>>

DoScanWebVTT ==
    /\ rd.codec = "webvtt"
    /\ rd.err = ""
    /\ rd.pos < Len(rd.input)
    /\ rd' = ScanWebVTT(rd)
    /\ UNCHANGED <<wr, docVars, styleVars, durationVars, fg>>

DoScanSSA ==
    /\ rd.codec = "ssa"
    /\ rd.err = ""
    /\ rd.pos < Len(rd.input)
    /\ rd' = ScanSSA(rd)
    /\ UNCHANGED <<wr, docVars, styleVars, durationVars, fg>>

DoFinishSSA ==
    /\ rd.codec = "ssa"
    /\ rd.err = ""
    /\ rd.pos = Len(rd.input)
    /\ ~rd.done
    /\ rd' = FinishSSA(rd)
    /\ UNCHANGED <<wr, docVars, styleVars, durationVars, fg>>

NextRead == DoScanSRT \/ DoScanWebVTT \/ DoScanSSA \/ DoFinishSSA

SpecRead == InitRead /\ [][NextRead]_vars

(* ---------------------------------------------------------------------- *)
(* The writer of the lines of WebVTT                                      *)
(* ---------------------------------------------------------------------- *)

\* the tags of a line item (a nil InlineStyle has none)
TagsOf(li) == IF li.InlineStyle = Nil THEN <<>> ELSE li.InlineStyle.WebVTTTags

\* LineItem.writeWebVTT, the loop over the start tags: the tag at idx is left
\* out when the previous line item has a tag of that name at idx
WrittenStartTags(li, previous) ==
    LET tags == TagsOf(li)
        skip(idx) == /\ previous # Nil
                     /\ previous.InlineStyle # Nil
                     /\ Len(previous.InlineStyle.WebVTTTags) >= idx
                     /\ tags[idx].Name = previous.InlineStyle.WebVTTTags[idx].Name
        F[idx \in 0..Len(tags)] ==
            IF idx = 0 THEN <<>>
            ELSE IF skip(idx) THEN F[idx - 1]
            ELSE Append(F[idx - 1], StartTag(tags[idx].Name))
    IN F[Len(tags)]

\* LineItem.writeWebVTT, the loop over the end tags, from the last tag to the
\* first: the tag at idx is left out when the next line item has a tag of that
\* name at idx
WrittenEndTags(li, next) ==
    LET tags == TagsOf(li)
        skip(idx) == /\ next # Nil
                     /\ next.InlineStyle # Nil
                     /\ Len(next.InlineStyle.WebVTTTags) >= idx
                     /\ tags[idx].Name = next.InlineStyle.WebVTTTags[idx].Name
        F[idx \in 1..(Len(tags) + 1)] ==
            IF idx = Len(tags) + 1 THEN <<>>
            ELSE IF skip(idx) THEN F[idx + 1]
            ELSE Append(F[idx + 1], EndTag(tags[idx].Name))
    IN F[1]

\* LineItem.writeWebVTT of a line item without StartAt and without TTMLColor:
\* the start tags, the text, the end tags
writeWebVTTLineItem(li, previous, next) ==
    WrittenStartTags(li, previous) \o <<TextToken(li.Text)>> \o WrittenEndTags(li, next)

\* the line items of a line and the tags they may hold
MaxLineItems == 3

MaxTags == 2

WebVTTTagNames == {<<"b">>, <<"i">>, <<"u">>}

TagStacks == UNION {[1..n -> {WebVTTTag(name) : name \in WebVTTTagNames}] : n \in 0..MaxTags}

LineItemSet ==
    {ReadLineItem(<<"h", "i">>, Nil)}
        \cup {ReadLineItem(<<"h", "i">>, [WebVTTTags |-> tags]) : tags \in TagStacks}

\* Line.writeWebVTT is given a line without a voice name
InitWriteLine ==
    /\ DocIdle
    /\ wr \in {[line |-> [VoiceName |-> <<>>, Items |-> items], idx |-> 0, out |-> <<>>,
                pc |-> "items"] :
                  items \in UNION {[1..n -> LineItemSet] : n \in 1..MaxLineItems}}
    /\ rd = [codec |-> "", input |-> <<>>]
    /\ StyleIdle
    /\ DurationIdle
    /\ FragmentIdle

\* Line.writeWebVTT, a turn of the loop over the line items
DoWriteLineItem ==
    /\ wr.pc = "items"
    /\ wr.idx < Len(wr.line.Items)
    /\ LET items == wr.line.Items
           idx == wr.idx + 1
           previous == IF idx > 1 THEN items[idx - 1] ELSE Nil
           next == IF idx < Len(items) THEN items[idx + 1] ELSE Nil
       IN wr' = [wr EXCEPT !.idx = idx,
                           !.out = @ \o writeWebVTTLineItem(items[idx], previous, next)]
    /\ UNCHANGED <<rd, docVars, styleVars, durationVars, fg>>

\* Line.writeWebVTT, after the loop: the line separator
DoWriteLineSeparator ==
    /\ wr.pc = "items"
    /\ wr.idx = Len(wr.line.Items)
    /\ wr' = [wr EXCEPT !.pc = "done"]
    /\ UNCHANGED <<rd, docVars, styleVars, durationVars, fg>>

NextWriteLine == DoWriteLineItem \/ DoWriteLineSeparator

SpecWriteLine == InitWriteLine /\ [][NextWriteLine]_vars

(* ---------------------------------------------------------------------- *)
(* The reader of the styles of TTML                                       *)
(* ---------------------------------------------------------------------- *)

\* the <style> elements of the inputs: at most MaxTTMLStyles, each with an ID
\* and, in Style, the ID of its parent or nothing
MaxTTMLStyles == 3

TTMLStyleIDs == {<<"a">>, <<"b">>, <<"c">>}

TTMLParentIDs == {<<>>, <<"a">>, <<"b">>, <<"c">>, <<"d">>}

TTMLStyleSet == {[ID |-> id, Style |-> parent] : id \in TTMLStyleIDs, parent \in TTMLParentIDs}

\* the last position of a map key in the sequence of the assignments to the
\* map, 0 when the key was never assigned
LastAt(keys, key) ==
    LET at == {k \in DOMAIN keys : keys[k] = key}
    IN IF at = {} THEN 0 ELSE CHOOSE k \in at : \A l \in at : l <= k

\* ReadFromTTML, the loop through ttml.Styles. A *Style is the position of the
\* style in o.Styles, 0 is nil: styles[id] is the last style with this ID and
\* parentStyles[id] the last style whose Style is id
ReadTTMLStyles(r) ==
    LET ids == [k \in DOMAIN r.input |-> r.input[k].ID]
        parents == [k \in DOMAIN r.input |-> r.input[k].Style]
    IN [r EXCEPT !.pc = "parents",
                 !.Styles = [k \in DOMAIN r.input |-> [ID |-> r.input[k].ID, Style |-> 0]],
                 !.styles = [id \in {ids[k] : k \in DOMAIN ids} |-> LastAt(ids, id)],
                 !.parentStyles =
                     [id \in {parents[k] : k \in DOMAIN parents} \ {<<>>} |->
                         LastAt(parents, id)]]

\* ReadFromTTML, a turn of the loop through parentStyles, at the key id
ReadTTMLParent(r, id) ==
    LET rest == [k \in DOMAIN r.parentStyles \ {id} |-> r.parentStyles[k]]
    IN IF id \notin DOMAIN r.styles
       THEN [r EXCEPT !.pc = "done", !.err = "style doesn't exist"]
       ELSE [r EXCEPT !.parentStyles = rest,
                      !.Styles[r.parentStyles[id]].Style = r.styles[id]]

NewTTMLReader(input) ==
    [codec |-> "ttml", input |-> input, pc |-> "styles", err |-> "", Styles |-> <<>>,
     styles |-> <<>>, parentStyles |-> <<>>]

\* ReadFromTTML is given a document without region and without subtitle
InitReadTTML ==
    /\ DocIdle
    /\ wr = [out |-> <<>>, calls |-> <<>>]
    /\ rd \in {NewTTMLReader(input) :
                  input \in UNION {[1..n -> TTMLStyleSet] : n \in 0..MaxTTMLStyles}}
    /\ StyleIdle
    /\ DurationIdle
    /\ FragmentIdle

DoReadTTMLStyles ==
    /\ rd.pc = "styles"
    /\ rd' = ReadTTMLStyles(rd)
    /\ UNCHANGED <<wr, docVars, styleVars, durationVars, fg>>

\* the range over the map takes its keys in any order
DoReadTTMLParent ==
    /\ rd.pc = "parents"
    /\ \E id \in DOMAIN rd.parentStyles : rd' = ReadTTMLParent(rd, id)
    /\ UNCHANGED <<wr, docVars, styleVars, durationVars, fg>>

\* after the loop through parentStyles: nothing else to read
DoReadTTMLEnd ==
    /\ rd.pc = "parents"
    /\ DOMAIN rd.parentStyles = {}
    /\ rd' = [rd EXCEPT !.pc = "done"]
    /\ UNCHANGED <<wr, docVars, styleVars, durationVars, fg>>

NextReadTTML == DoReadTTMLStyles \/ DoReadTTMLParent \/ DoReadTTMLEnd

SpecReadTTML == InitReadTTML /\ [][NextReadTTML]_vars

(* ---------------------------------------------------------------------- *)
(* The reader of the text fields of STL                                   *)
(* ---------------------------------------------------------------------- *)

\* the bytes of the inputs: e, the accents grave and diaeresis, a byte of the
\* range of the accents the table does not hold, and the separator of the rows
STLBytes == {101, 192, 193, 200, 138}

\* stlCharacterCodeTables[stlCharacterCodeTableNumberLatin], on these bytes
stlLatinTable == (101 :> "e") @@ (193 :> "U+0300") @@ (200 :> "U+0308")

\* norm.NFC of a character followed by a combining accent: the composed
\* character when there is one, else the two as they are
NFC(v, accent) ==
    IF v = "e" /\ accent = "U+0300" THEN <<"U+00E8">>
    ELSE IF v = "e" /\ accent = "U+0308" THEN <<"U+00EB">>
    ELSE <<v, accent>>

\* stlCharacterHandler.decode for the Latin table: what it returns and the
\* accent the handler holds afterwards ("" is no accent)
decode(accent, k) ==
    IF k \notin DOMAIN stlLatinTable THEN [o |-> <<>>, accent |-> accent]
    ELSE IF accent # "" THEN [o |-> NFC(stlLatinTable[k], accent), accent |-> ""]
    ELSE IF k >= 192 /\ k <= 207 THEN [o |-> <<>>, accent |-> stlLatinTable[k]]
    ELSE [o |-> <<stlLatinTable[k]>>, accent |-> ""]

\* the loop through the columns of a row: the text decoded from its bytes, and
\* the accent the handler holds after the row
RECURSIVE DecodeRow(_, _, _)
DecodeRow(row, accent, text) ==
    IF Len(row) = 0 THEN [text |-> text, accent |-> accent]
    ELSE DecodeRow(Tail(row), decode(accent, Head(row)).accent,
                   text \o decode(accent, Head(row)).o)

\* bytes.Split(t.text, []byte{0x8a}): the rows of a text field
RECURSIVE SplitRows(_, _)
SplitRows(text, row) ==
    IF Len(text) = 0 THEN <<row>>
    ELSE IF Head(text) = 138 THEN <<row>> \o SplitRows(Tail(text), <<>>)
    ELSE SplitRows(Tail(text), Append(row, Head(text)))

\* ReadFromSTL, the loop through the rows of a text field with the character
\* handler of the document: the texts of the rows and the accent left
RECURSIVE DecodeRows(_, _, _)
DecodeRows(rows, accent, texts) ==
    IF Len(rows) = 0 THEN [texts |-> texts, accent |-> accent]
    ELSE DecodeRows(Tail(rows), DecodeRow(Head(rows), accent, <<>>).accent,
                    Append(texts, DecodeRow(Head(rows), accent, <<>>).text))

\* ReadFromSTL, a turn of the loop through the TTI blocks: the handler made
\* before the loop decodes the text field of every block
ReadTTI(r) ==
    LET read == DecodeRows(SplitRows(r.input[r.pos + 1], <<>>), r.accent, <<>>)
    IN [r EXCEPT !.pos = @ + 1, !.accent = read.accent,
                 !.items = Append(@, read.texts)]

\* the TTI blocks of the inputs and the bytes of their text fields
MaxTTI == 2

MaxTextBytes == 3

NewSTLReader(input) ==
    [codec |-> "stl", input |-> input, pos |-> 0, accent |-> "", items |-> <<>>]

InitReadSTL ==
    /\ DocIdle
    /\ wr = [out |-> <<>>, calls |-> <<>>]
    /\ rd \in {NewSTLReader(input) :
                  input \in UNION {[1..n -> UNION {[1..l -> STLBytes] : l \in 0..MaxTextBytes}] :
                                      n \in 0..MaxTTI}}
    /\ StyleIdle
    /\ DurationIdle
    /\ FragmentIdle

DoReadTTI ==
    /\ rd.pos < Len(rd.input)
    /\ rd' = ReadTTI(rd)
    /\ UNCHANGED <<wr, docVars, styleVars, durationVars, fg>>

NextReadSTL == DoReadTTI

SpecReadSTL == InitReadSTL /\ [][NextReadSTL]_vars

(* ---------------------------------------------------------------------- *)
(* Properties of the document operations                                   *)
(* ---------------------------------------------------------------------- *)

\* the last operation applied, with the state it was applied to
Last == hist[Len(hist)]

LastOp(name) == Len(hist) > 0 /\ Last.op = name

Elems == s.Items.elems

\* StartAt is non-decreasing along the items of elems
SortedByStartAt(m, elems) ==
    \A k, l \in DOMAIN elems : k < l => m[elems[k]].StartAt <= m[elems[l]].StartAt

\* after holds the items of before in another order
IsPermutation(before, after) ==
    /\ Len(before) = Len(after)
    /\ \A p \in Range(before) \cup Range(after) :
        Cardinality({k \in DOMAIN before : before[k] = p})
            = Cardinality({k \in DOMAIN after : after[k] = p})

PositionOf(elems, p) == CHOOSE k \in DOMAIN elems : elems[k] = p

\* items of before with equal StartAt are in the same relative order in after
KeepsOrderOfEquals(m, before, after) ==
    \A k, l \in DOMAIN before :
        (k < l /\ m[before[k]].StartAt = m[before[l]].StartAt)
            => PositionOf(after, before[k]) < PositionOf(after, before[l])

\* C1: Order() is a stable sort of Items by StartAt: afterwards StartAt is
\* non-decreasing along the items, and two items with equal StartAt keep
\* their relative input order.
C1_OrderIsStableSort ==
    LastOp("Order") =>
        /\ IsPermutation(Last.s.Items.elems, Elems)
        /\ SortedByStartAt(mem, Elems)
        /\ KeepsOrderOfEquals(mem, Last.s.Items.elems, Elems)

\* C2: calling Order() twice in succession leaves Items in exactly the
\* sequence that calling Order() once leaves them in.
C2_OrderTwiceIsOrderOnce ==
    (Len(hist) >= 2 /\ Last.op = "Order" /\ hist[Len(hist) - 1].op = "Order")
        => Elems = Last.s.Items.elems

\* the IDs of the regions and styles the items of elems refer to
ItemRegions(m, elems) == {m[p].Region.ID : p \in {q \in Range(elems) : m[q].Region # Nil}}

ItemStyles(m, elems) ==
    {m[p].Style.ID : p \in {q \in Range(elems) : m[q].Style # Nil}}
        \cup UNION {LineItemStyles(m[p]) : p \in Range(elems)}

RegionStyles(d) ==
    {d.Regions[id].Style.ID : id \in {k \in DOMAIN d.Regions : d.Regions[k].Style # Nil}}

\* C3, as claimed: after Optimize(), every Region and every Style remaining in
\* the mappings is referenced by at least one Item that remains.
C3_RemainingAreReferencedBySurvivors ==
    LastOp("Optimize") =>
        /\ \A id \in DOMAIN s.Regions : s.Regions[id].ID \in ItemRegions(mem, Elems)
        /\ \A id \in DOMAIN s.Styles : s.Styles[id].ID \in ItemStyles(mem, Elems)

\* C3, as amended: after Optimize() of a Document that holds at least one Item,
\* every remaining Region is referenced by an Item the Document held when
\* Optimize was called, and every remaining Style is referenced by such an
\* Item, by one of its LineItems, or by a remaining Region.
C3_RemainingAreReferenced ==
    (LastOp("Optimize") /\ Len(Last.s.Items.elems) > 0) =>
        /\ \A id \in DOMAIN s.Regions :
            s.Regions[id].ID \in ItemRegions(Last.mem, Last.s.Items.elems)
        /\ \A id \in DOMAIN s.Styles :
            s.Styles[id].ID \in ItemStyles(Last.mem, Last.s.Items.elems) \cup RegionStyles(s)

\* C3 witness: Optimize dropped a region and a style and kept others
C3_Witness ==
    /\ LastOp("Optimize")
    /\ DOMAIN s.Regions # {}
    /\ DOMAIN s.Regions # DOMAIN Last.s.Regions
    /\ DOMAIN s.Styles # {}
    /\ DOMAIN s.Styles # DOMAIN Last.s.Styles

\* the items of the document Add(-2s) was applied to that ran from a to b
AddedTo(a, b) ==
    {p \in Range(Last.s.Items.elems) : Last.mem[p].StartAt = a /\ Last.mem[p].EndAt = b}

\* C4, as claimed: Add(-2s) removes an Item with StartAt=1s and EndAt=3s, and
\* turns an Item with StartAt=3s and EndAt=7s into StartAt=1s, EndAt=5s.
C4_AddMinusTwoRemoves ==
    (LastOp("Add") /\ Last.arg = -2 * Second) =>
        /\ \A p \in AddedTo(Second, 3 * Second) : p \notin Range(Elems)
        /\ \A p \in AddedTo(3 * Second, 7 * Second) :
            p \in Range(Elems) /\ mem[p].StartAt = Second /\ mem[p].EndAt = 5 * Second

\* C4, as amended: Add(-2s) keeps an Item with StartAt=1s and EndAt=3s, with
\* StartAt=0 and EndAt=1s, and turns an Item with StartAt=3s and EndAt=7s into
\* StartAt=1s, EndAt=5s.
C4_AddMinusTwo ==
    (LastOp("Add") /\ Last.arg = -2 * Second) =>
        /\ \A p \in AddedTo(Second, 3 * Second) :
            p \in Range(Elems) /\ mem[p].StartAt = 0 /\ mem[p].EndAt = Second
        /\ \A p \in AddedTo(3 * Second, 7 * Second) :
            p \in Range(Elems) /\ mem[p].StartAt = Second /\ mem[p].EndAt = 5 * Second

\* C4 witness: Add(-2s) was applied to a document holding both items
C4_Witness ==
    /\ LastOp("Add") /\ Last.arg = -2 * Second
    /\ AddedTo(Second, 3 * Second) # {}
    /\ AddedTo(3 * Second, 7 * Second) # {}

\* C5: after s.Merge(i), s.Items holds every item of s and of i ordered by
\* non-decreasing StartAt, and s.Regions and s.Styles hold exactly one entry
\* for each distinct ID found in either Document.
C5_MergeHoldsAllOrdered ==
    LastOp("Merge") =>
        /\ IsPermutation(Last.s.Items.elems \o i.Items.elems, Elems)
        /\ SortedByStartAt(mem, Elems)
        /\ DOMAIN s.Regions = DOMAIN Last.s.Regions \cup DOMAIN i.Regions
        /\ DOMAIN s.Styles = DOMAIN Last.s.Styles \cup DOMAIN i.Styles
        /\ \A id \in DOMAIN s.Regions : s.Regions[id].ID = id
        /\ \A id \in DOMAIN s.Styles : s.Styles[id].ID = id

\* C5 witness: a merge that had to reorder the items and found a region ID in
\* both documents
C5_Witness ==
    /\ LastOp("Merge")
    /\ Elems # Last.s.Items.elems \o i.Items.elems
    /\ DOMAIN Last.s.Regions \cap DOMAIN i.Regions # {}
    /\ DOMAIN i.Regions \ DOMAIN Last.s.Regions # {}

\* the (StartAt, EndAt, text) triples of the items of elems
TriplesOf(m, elems) ==
    [k \in DOMAIN elems |->
        <<m[elems[k]].StartAt, m[elems[k]].EndAt, ItemString(m[elems[k]])>>]

\* the last two operations were Fragment, then Unfragment
FragmentedThenUnfragmented ==
    Len(hist) >= 2 /\ hist[Len(hist) - 1].op = "Fragment" /\ Last.op = "Unfragment"

\* the document Fragment was applied to
Original == hist[Len(hist) - 1]

\* two items of the document with one text touch or overlap
SameTextItemsTouch(m, elems) ==
    \E k, l \in DOMAIN elems :
        /\ k # l
        /\ ItemString(m[elems[k]]) = ItemString(m[elems[l]])
        /\ m[elems[k]].StartAt <= m[elems[l]].StartAt
        /\ m[elems[k]].EndAt >= m[elems[l]].StartAt

\* C6, as claimed: for every Document and every f > 0, Fragment(f) followed by
\* Unfragment() yields a Document whose items have the same (StartAt, EndAt,
\* text) triples as the original.
C6_RoundTripKeepsTriples ==
    FragmentedThenUnfragmented =>
        IsPermutation(TriplesOf(Original.mem, Original.s.Items.elems), TriplesOf(mem, Elems))

\* C6, as amended: for every f > 0 and every Document whose items have
\* StartAt <= EndAt and in which no two items with the same text touch or
\* overlap, Fragment(f) followed by Unfragment() yields a Document whose items
\* have the same (StartAt, EndAt, text) triples as the original.
C6_RoundTripKeepsSeparateTriples ==
    (FragmentedThenUnfragmented
        /\ ~SameTextItemsTouch(Original.mem, Original.s.Items.elems))
        => IsPermutation(TriplesOf(Original.mem, Original.s.Items.elems), TriplesOf(mem, Elems))

\* C6 witness: Fragment cut an item of such a Document into three or more
\* pieces and Unfragment put two items back
C6_Witness ==
    /\ FragmentedThenUnfragmented
    /\ ~SameTextItemsTouch(Original.mem, Original.s.Items.elems)
    /\ Len(Original.s.Items.elems) = 2
    /\ Len(Last.s.Items.elems) >= 4
    /\ Len(Elems) = 2

(* ---------------------------------------------------------------------- *)
(* Properties of the propagation functions                                 *)
(* ---------------------------------------------------------------------- *)

\* the last propagation call, with the value it was made on
SaLast == sahist[Len(sahist)]

\* the last two calls were of the same propagation function
CalledTwice == Len(sahist) >= 2 /\ sahist[Len(sahist) - 1].op = SaLast.op

\* C7: for each namespace propagation function (SRT, SSA, STL, Teletext, TTML,
\* WebVTT) and every StyleAttributes value, applying the function twice
\* yields the same StyleAttributes as applying it once.
C7_PropagationTwiceIsOnce == CalledTwice => sa = SaLast.sa

\* C7 witness: a function was applied twice to a value in which another
\* function had left the address of a field, and its first application
\* changed the value
C7_Witness ==
    /\ Len(sahist) = 3
    /\ CalledTwice
    /\ sahist[1].op # SaLast.op
    /\ sahist[2].sa # SaLast.sa
    /\ \E f \in {"SSABold", "SSAItalic", "SSAUnderline", "STLItalics", "STLUnderline"} :
            sahist[2].sa[f] # Nil /\ "field" \in DOMAIN sahist[2].sa[f]

\* the field f of the StyleAttributes v is set: it has not its zero value
IsSet(v, f) ==
    IF f \in BoolFields THEN v[f]
    ELSE IF f \in PointerFields THEN v[f] # Nil
    ELSE IF f \in IntFields THEN v[f] # 0
    ELSE v[f] # <<>>

\* the StyleAttributes after the k-th call
SaAfter(k) == IF k = Len(sahist) THEN sa ELSE sahist[k + 1].sa

\* C8: in any sequence of propagation calls on one StyleAttributes value, once
\* a field has been set by a propagation call, no later propagation call from
\* a different namespace clears or unsets it.
C8_PropagationNeverClears ==
    \A k \in 1..(Len(sahist) - 1) : \A f \in StyleFields :
        (/\ ~IsSet(sahist[k].sa, f) /\ IsSet(SaAfter(k), f)
         /\ SaLast.op # sahist[k].op
         /\ IsSet(SaLast.sa, f))
            => IsSet(sa, f)

(* ---------------------------------------------------------------------- *)
(* Properties of the duration codec                                        *)
(* ---------------------------------------------------------------------- *)

\* the last two calls of the codec
Formatted == dhist[Len(dhist) - 1]

Parsed == dhist[Len(dhist)]

\* the last two calls were formatDuration(d, sep, w) for a non-negative d that
\* is a whole multiple of 10^(3-w) milliseconds, then parseDuration of its
\* result with the same separator
FormattedThenParsed ==
    /\ Len(dhist) >= 2
    /\ Formatted.op = "formatDuration" /\ Parsed.op = "parseDuration"
    /\ Parsed.sep = Formatted.sep
    /\ Formatted.val.o >= 0
    /\ Formatted.val.o % (Pow10(3 - Formatted.w) * Millisecond) = 0

ReadWrittenRead ==
    /\ Len(dhist) >= 3
    /\ dhist[Len(dhist) - 2].op = "read"
    /\ dhist[Len(dhist) - 1].op = "write"
    /\ dhist[Len(dhist)].op = "read"
    /\ dhist[Len(dhist) - 2].codec = dhist[Len(dhist) - 1].codec
    /\ dhist[Len(dhist) - 1].codec = dhist[Len(dhist)].codec
    /\ ~dhist[Len(dhist) - 1].val.err

\* C10: for every Document D that a codec's parser can produce, parsing the
\* output of the same codec's writer applied to D yields a Document equal to
\* D; here, for the StartAt or EndAt of an item of D.
C10_ReadOfWriteKeepsTimes == ReadWrittenRead => dval = dhist[Len(dhist) - 1].val

(* ---------------------------------------------------------------------- *)
(* Ownership of regions, styles and items                                  *)
(* ---------------------------------------------------------------------- *)

\* the state the first operation was applied to
First == IF Len(hist) = 0 THEN [mem |-> mem, s |-> s] ELSE hist[1]

\* o is the entry stored under its ID in the mapping
IsEntryOf(o, mapping) == o.ID \in DOMAIN mapping /\ mapping[o.ID] = o

\* every Region and Style the items of d, and their line items, point to is
\* the entry of d's mapping with that ID
OwnsItsReferences(m, d) ==
    \A p \in Range(d.Items.elems) :
        /\ m[p].Region # Nil => IsEntryOf(m[p].Region, d.Regions)
        /\ m[p].Style # Nil => IsEntryOf(m[p].Style, d.Styles)
        /\ \A l \in DOMAIN m[p].Lines : \A k \in DOMAIN m[p].Lines[l].Items :
            m[p].Lines[l].Items[k].Style # Nil
                => IsEntryOf(m[p].Lines[l].Items[k].Style, d.Styles)

\* C12: when the Document the operations began with points only to entries of
\* its own region and style mappings (as every Document merged into it does),
\* then so does the Document after any sequence of operations.
C12_ReferencesStayOwned ==
    OwnsItsReferences(First.mem, First.s) => OwnsItsReferences(mem, s)

\* C14: an operation on s applied after s.Merge(i) leaves every Item of i as
\* it was right after the Merge.
C14_MergedItemsAreNotShared ==
    \A k \in 1..(Len(hist) - 1) :
        hist[k].op = "Merge" =>
            \A p \in Range(hist[k + 1].i.Items.elems) : mem[p] = hist[k + 1].mem[p]

(* ---------------------------------------------------------------------- *)
(* Properties of the operations that change the times                      *)
(* ---------------------------------------------------------------------- *)

\* 0 <= StartAt <= EndAt for every item of elems
ValidTimes(m, elems) ==
    \A p \in Range(elems) : 0 <= m[p].StartAt /\ m[p].StartAt <= m[p].EndAt

\* C13: Add, ForceDuration, Fragment, Unfragment and ApplyLinearCorrection,
\* applied to a Document whose items all have 0 <= StartAt <= EndAt, yield a
\* Document whose items all have 0 <= StartAt <= EndAt.
C13_TimesStayValid ==
    (/\ Len(hist) > 0
     /\ Last.op \in {"Add", "ForceDuration", "Fragment", "Unfragment", "ApplyLinearCorrection"}
     /\ ValidTimes(Last.mem, Last.s.Items.elems))
        => ValidTimes(mem, Elems)

\* the items Add(d) keeps: those with StartAt + d > 0 or EndAt + d > 0
KeptByAdd(m, elems, d) ==
    SelectSeq(elems, LAMBDA p : m[p].StartAt + d > 0 \/ m[p].EndAt + d > 0)

\* C15: after Add(d) the Document holds exactly the items with StartAt + d > 0
\* or EndAt + d > 0, in their original relative order, each with EndAt
\* increased by d and StartAt equal to max(StartAt + d, 0).
C15_AddKeepsShiftsAndClamps ==
    LastOp("Add") =>
        /\ Elems = KeptByAdd(Last.mem, Last.s.Items.elems, Last.arg)
        /\ \A p \in Range(Elems) :
            /\ mem[p].EndAt = Last.mem[p].EndAt + Last.arg
            /\ mem[p].StartAt = IF Last.mem[p].StartAt + Last.arg > 0
                                THEN Last.mem[p].StartAt + Last.arg
                                ELSE 0

\* Add(d) has removed an item, and brought the StartAt of another from below 0 to 0
C15_Witness ==
    /\ LastOp("Add")
    /\ Len(Elems) < Len(Last.s.Items.elems)
    /\ \E p \in Range(Elems) :
        Last.mem[p].StartAt + Last.arg < 0 /\ mem[p].StartAt = 0 /\ mem[p].EndAt > 0

\* two items have the same text and touch or overlap in time
Touch(a, b) ==
    ItemString(a) = ItemString(b) /\ a.StartAt <= b.EndAt /\ b.StartAt <= a.EndAt

\* the items of P linked to an item of S by a chain of items that touch
RECURSIVE TouchClosure(_, _, _)
TouchClosure(m, P, S) ==
    LET n == S \cup {q \in P : \E r \in S : Touch(m[q], m[r])}
    IN IF n = S THEN S ELSE TouchClosure(m, P, n)

\* the groups of items of P that Unfragment has to merge into one item each
TouchGroups(m, P) == {TouchClosure(m, P, {p}) : p \in P}

\* the item a group merges into: from its earliest StartAt to its latest EndAt
MergedTriple(m, G) ==
    LET p == CHOOSE q \in G : TRUE
    IN <<CHOOSE a \in {m[q].StartAt : q \in G} : \A q \in G : a <= m[q].StartAt,
         CHOOSE b \in {m[q].EndAt : q \in G} : \A q \in G : b >= m[q].EndAt,
         ItemString(m[p])>>

\* C16: Unfragment() merges items exactly when they have identical text and
\* touch or overlap in time: afterwards no two items have identical text with
\* the earlier one's EndAt >= the later one's StartAt, and each remaining item
\* is one group of identical-text items linked by touching, so that
\* identical-text items separated by a gap stay separate.
C16_UnfragmentMergesExactlyTouching ==
    LastOp("Unfragment") =>
        LET groups == TouchGroups(Last.mem, Range(Last.s.Items.elems))
        IN /\ \A k, l \in DOMAIN Elems :
                (k # l /\ ItemString(mem[Elems[k]]) = ItemString(mem[Elems[l]])
                       /\ mem[Elems[k]].StartAt <= mem[Elems[l]].StartAt)
                    => mem[Elems[k]].EndAt < mem[Elems[l]].StartAt
           /\ Len(Elems) = Cardinality(groups)
           /\ {<<mem[p].StartAt, mem[p].EndAt, ItemString(mem[p])>> : p \in Range(Elems)}
                = {MergedTriple(Last.mem, G) : G \in groups}

\* Unfragment() has merged items, and has left two items with identical text separate
C16_Witness ==
    /\ LastOp("Unfragment")
    /\ Len(Elems) < Len(Last.s.Items.elems)
    /\ \E k, l \in DOMAIN Elems :
        /\ k # l
        /\ ItemString(mem[Elems[k]]) = ItemString(mem[Elems[l]])
        /\ mem[Elems[k]].EndAt < mem[Elems[l]].StartAt

\* C17: for every d >= 0, after ForceDuration(d, true) the Document's
\* Duration() equals d.
C17_ForceDurationSetsDuration ==
    (LastOp("ForceDuration") /\ Last.arg.d >= 0 /\ Last.arg.addDummyItem)
        => Duration(mem, s) = Last.arg.d

\* ForceDuration(d, true) has cut a Document that lasted longer than d and
\* has added the dummy item
C17_Witness ==
    /\ LastOp("ForceDuration")
    /\ Last.arg.d > 0
    /\ Last.arg.addDummyItem
    /\ Duration(Last.mem, Last.s) > Last.arg.d
    /\ Len(Elems) > 1
    /\ ItemString(mem[Elems[Len(Elems)]]) = "..."

\* C18: after Trim(from, to) every remaining item has StartAt >= from and
\* EndAt <= to.
C18_TrimKeepsOnlyItemsInRange ==
    LastOp("Trim") =>
        \A p \in Range(Elems) : mem[p].StartAt >= Last.arg.from /\ mem[p].EndAt <= Last.arg.to

(* ---------------------------------------------------------------------- *)
(* Properties of the writers                                               *)
(* ---------------------------------------------------------------------- *)

\* the last call of a writer, with what the io.Writer held before it
LastWrite == wr.calls[Len(wr.calls)]

\* the arguments have the types the writer accepts
WellTyped(args) ==
    /\ Len(args) >= 1 => IsWriter(args[1])
    /\ Len(args) >= 2 => IsBool(args[2])

\* C11 as stated: every format writer called on a Document with zero items
\* returns ErrNoSubtitlesToWrite and writes nothing to the output.
C11_EmptyDocumentIsRejected ==
    (Len(wr.calls) > 0 /\ Len(Elems) = 0)
        => LastWrite.err = ErrNoSubtitlesToWrite /\ wr.out = LastWrite.out

\* C11: every format writer called, with arguments of the types it accepts,
\* on a Document with zero items returns ErrNoSubtitlesToWrite and writes
\* nothing to the output.
C11_EmptyDocumentIsRejectedWhenWellTyped ==
    (Len(wr.calls) > 0 /\ Len(Elems) = 0 /\ WellTyped(LastWrite.args))
        => LastWrite.err = ErrNoSubtitlesToWrite /\ wr.out = LastWrite.out

\* two writers have been called on a Document with zero items, the last one
\* WriteToWebVTT with an io.Writer that held something before
C11_Witness ==
    /\ Len(Elems) = 0
    /\ Len(wr.calls) = 2
    /\ wr.calls[1].writer = "WriteToSRT"
    /\ LastWrite.writer = "WriteToWebVTT"
    /\ LastWrite.args = <<"io.Writer", "true">>
    /\ LastWrite.out # <<>>

(* ---------------------------------------------------------------------- *)
(* Properties of the readers                                              *)
(* ---------------------------------------------------------------------- *)

\* the position of the header line of a WebVTT input, past its end when it has
\* none; an SRT input has no header
HeaderPosition(r) ==
    LET at == {k \in DOMAIN r.input : r.input[k].kind = "header"}
    IN IF r.codec = "srt" THEN 0
       ELSE IF at = {} THEN Len(r.input) + 1
       ELSE CHOOSE k \in at : \A l \in at : k <= l

\* the positions of the timing lines read so far: each starts a cue
CuePositions(r) ==
    {k \in 1..r.pos : r.input[k].kind = "time" /\ k > HeaderPosition(r)}

\* the position of the timing line of the n-th cue
NthCue(r, n) ==
    CHOOSE k \in CuePositions(r) : Cardinality({l \in CuePositions(r) : l <= k}) = n

\* the names of the tags opened in the lines of the cue whose timing line is at k
OpenedInCue(r, k) ==
    LET later == {l \in CuePositions(r) : l > k}
        last == IF later = {} THEN r.pos ELSE (CHOOSE l \in later : \A e \in later : l <= e) - 1
    IN UNION {{r.input[l].tokens[t].data :
                  t \in {e \in DOMAIN r.input[l].tokens : r.input[l].tokens[e].t = "start"}} :
              l \in (k + 1)..last}

\* the names of the tags an inline style stands for
StyledBy(r, inlineStyle) ==
    IF inlineStyle = Nil THEN {}
    ELSE IF r.codec = "srt"
    THEN (IF inlineStyle.SRTBold THEN {<<"b">>} ELSE {})
         \cup (IF inlineStyle.SRTItalics THEN {<<"i">>} ELSE {})
         \cup (IF inlineStyle.SRTUnderline THEN {<<"u">>} ELSE {})
         \cup (IF inlineStyle.SRTColor # <<>> THEN {<<"f", "o", "n", "t">>} ELSE {})
    ELSE {inlineStyle.WebVTTTags[k].Name : k \in DOMAIN inlineStyle.WebVTTTags}

\* no tag is open in the state of the reader
NoOpenStyle(r) ==
    IF r.codec = "srt" THEN r.sa = SRTStyleAttributes ELSE Len(r.sa.WebVTTTags) = 0

\* every style of every text of every item read was opened in the item's own cue
StyledInOwnCue(r) ==
    \A n \in DOMAIN r.items :
        \A l \in DOMAIN r.items[n].Lines :
            \A k \in DOMAIN r.items[n].Lines[l].Items :
                StyledBy(r, r.items[n].Lines[l].Items[k].InlineStyle)
                    \subseteq OpenedInCue(r, NthCue(r, n))

\* C19: an inline style left open at the end of a cue never applies to the text
\* of a later cue, in SRT and in WebVTT: once the timing line of a cue is
\* read no tag is open, and every style a text of an item carries was opened
\* in the lines of the item's own cue
C19_StylesEndWithTheirCue ==
    rd.codec \in {"srt", "webvtt"} =>
        /\ (rd.pos \in CuePositions(rd) /\ rd.err = "") => NoOpenStyle(rd)
        /\ StyledInOwnCue(rd)

\* the part of C19 the SRT reader keeps
SRTStylesEndWithTheirCue ==
    rd.codec = "srt" =>
        /\ (rd.pos \in CuePositions(rd) /\ rd.err = "") => NoOpenStyle(rd)
        /\ StyledInOwnCue(rd)

\* an SRT cue was read after a cue that left a tag open
SRTLeftOpen ==
    /\ rd.codec = "srt"
    /\ Len(rd.items) = 2
    /\ <<"b">> \in OpenedInCue(rd, NthCue(rd, 1))
    /\ \E l \in DOMAIN rd.items[1].Lines : \E k \in DOMAIN rd.items[1].Lines[l].Items :
            rd.items[1].Lines[l].Items[k].InlineStyle # Nil
    /\ \E l \in DOMAIN rd.items[2].Lines : \E k \in DOMAIN rd.items[2].Lines[l].Items :
            rd.items[2].Lines[l].Items[k].InlineStyle = Nil

\* the line at position k of the input of an SSA reader, as the reader sees it
SSALine(r, k) == TrimSpace(r.input[k])

\* a line that names a section
IsSectionLine(line) == HasPrefix(line, <<"[">>) /\ HasSuffix(line, <<"]">>)

\* a line with a header: not empty, not a section line, not a comment, with a colon
HasHeader(line) ==
    Len(line) > 0 /\ ~IsSectionLine(line) /\ line[1] # ";" /\ Index(line, <<":">>) > 0

HeaderOf(line) == TrimSpace(SubSeq(line, 1, Index(line, <<":">>) - 1))

IsFormatLine(line) == HasHeader(line) /\ HeaderOf(line) = <<"F", "o", "r", "m", "a", "t">>

IsDataLine(line) == HasHeader(line) /\ HeaderOf(line) # <<"F", "o", "r", "m", "a", "t">>

\* the position of the section line the line at k is under, 0 when there is none
SectionStart(r, k) ==
    LET before == {j \in 1..(k - 1) : IsSectionLine(SSALine(r, j))}
    IN IF before = {} THEN 0 ELSE CHOOSE j \in before : \A l \in before : l <= j

\* the line at k is under a section of events or of styles
InFormattedSection(r, k) ==
    /\ SectionStart(r, k) > 0
    /\ LET line == SSALine(r, SectionStart(r, k))
       IN ToLower(SubSeq(line, 2, Len(line) - 1))
              \in {<<"e", "v", "e", "n", "t", "s">>, <<"v", "4", " ", "s", "t", "y", "l", "e",
                  "s">>,
                  <<"v", "4", "+", " ", "s", "t", "y", "l", "e", "s">>,
                  <<"v", "4", " ", "s", "t", "y", "l", "e", "s", "+">>}

\* the line at k is a data line of a section of events or of styles, and no
\* Format line stands between the section line and it
DataBeforeFormat(r, k) ==
    /\ IsDataLine(SSALine(r, k))
    /\ InFormattedSection(r, k)
    /\ \A j \in (SectionStart(r, k) + 1)..(k - 1) : ~IsFormatLine(SSALine(r, j))

\* C20: ReadFromSSA fails with an error whenever it reads a data line of a
\* section of styles or of events before a Format line of that same section
C20_DataBeforeFormatIsAnError ==
    rd.codec = "ssa" =>
        ((\E k \in 1..rd.pos : DataBeforeFormat(rd, k)) => rd.err # "")

\* a data line was rejected for want of a format, after an earlier section
\* had its Format line
C20_Witness ==
    /\ rd.codec = "ssa"
    /\ rd.err = "no format provided"
    /\ DataBeforeFormat(rd, rd.pos)
    /\ \E j \in 1..(SectionStart(rd, rd.pos) - 1) :
           IsFormatLine(SSALine(rd, j)) /\ InFormattedSection(rd, j)

(* ---------------------------------------------------------------------- *)
(* Properties of Fragment                                                 *)
(* ---------------------------------------------------------------------- *)

\* the item at p strictly contains a multiple of f that is not negative
ContainsBoundary(m, p, f) ==
    \E k \in 0..(IF m[p].EndAt > 0 THEN m[p].EndAt \div f ELSE 0) :
        m[p].StartAt < k * f /\ k * f < m[p].EndAt

\* C27: after Fragment(f) with f > 0 no item's time range strictly contains a
\* fragment boundary: for no item and no integer k >= 0, StartAt < k*f < EndAt.
C27_NoItemContainsABoundary ==
    (LastOp("Fragment") /\ Last.arg > 0) =>
        \A p \in Range(Elems) : ~ContainsBoundary(mem, p, Last.arg)

\* C29: Fragment(f) terminates on every Document of finitely many items, for
\* every fragment duration f, f <= 0 included: every call returns.
C29_FragmentTerminates == <>(fg.pc = "done")

\* the part of C29 that holds: a call with f # 0 returns
FragmentTerminatesUnlessZero == (fg.pc = "start" /\ fg.f # 0) ~> (fg.pc = "done")

(* ---------------------------------------------------------------------- *)
(* Properties of the propagation: bold, italic and underline              *)
(* ---------------------------------------------------------------------- *)

\* the fields that say whether a text is bold, italic or underlined, by the
\* namespace they belong to
StyleFamilies ==
    {[SRT |-> "SRTBold", SSA |-> "SSABold", TTML |-> "TTMLFontWeight", WebVTT |-> "WebVTTBold"],
     [SRT |-> "SRTItalic", SSA |-> "SSAItalic", STL |-> "STLItalics",
      TTML |-> "TTMLFontStyle", WebVTT |-> "WebVTTItalics"],
     [SRT |-> "SRTUnderline", SSA |-> "SSAUnderline", STL |-> "STLUnderline",
      TTML |-> "TTMLTextDecoration", WebVTT |-> "WebVTTUnderline"]}

TTMLFields == {"TTMLFontWeight", "TTMLFontStyle", "TTMLTextDecoration"}

\* the field f of v says on: a true flag, a pointer to true, or the TTML
\* value that marks the style
SaysOn(v, f) ==
    IF f \in TTMLFields
    THEN v[f] \in {ttmlFontWeightBold, ttmlFontStyleItalic, ttmlTextDecorationUnderline}
    ELSE IF f \in BoolFields THEN v[f]
    ELSE v[f] # Nil /\ Deref(v, v[f])

\* the propagation function of a namespace propagates the field f of v: a
\* true flag, a pointer that is not nil, or the TTML value that marks the style
Propagates(v, f) ==
    IF f \in TTMLFields THEN SaysOn(v, f)
    ELSE IF f \in BoolFields THEN v[f]
    ELSE v[f] # Nil

\* C28: after the propagation function of a namespace has run, the bold,
\* italic and underline fields it wrote in the other namespaces say on
\* exactly when the field of its own namespace says on.
C28_PropagatedFieldsAgree ==
    Len(sahist) > 0 =>
        \A fam \in StyleFamilies :
            (SaLast.op \in DOMAIN fam /\ Propagates(SaLast.sa, fam[SaLast.op])) =>
                \A n \in DOMAIN fam \ {SaLast.op} :
                    SaysOn(sa, fam[n]) = SaysOn(SaLast.sa, fam[SaLast.op])

(* ---------------------------------------------------------------------- *)
(* Properties of the SRT reader                                           *)
(* ---------------------------------------------------------------------- *)

\* a line of text with nothing but white space
IsBlankLine(line) == line.kind = "text" /\ TrimSpace(LineRaw(line.tokens)) = <<>>

\* the position of the last line of the text of the cue whose time-range line
\* is at k: the lines that follow it up to the next blank line, the next
\* time-range line or the end of the input
TextEnd(r, k) ==
    LET stops == {l \in (k + 1)..Len(r.input) :
                     IsBlankLine(r.input[l]) \/ r.input[l].kind = "time"}
    IN IF stops = {} THEN Len(r.input)
       ELSE (CHOOSE l \in stops : \A e \in stops : l <= e) - 1

\* the texts of a line of the input: its text tokens
RECURSIVE TextsOfTokens(_)
TextsOfTokens(tokens) ==
    IF Len(tokens) = 0 THEN <<>>
    ELSE IF Head(tokens).t = "text" THEN <<Head(tokens).data>> \o TextsOfTokens(Tail(tokens))
    ELSE TextsOfTokens(Tail(tokens))

\* the texts of the lines of an item
TextsOfLines(lines) ==
    [l \in DOMAIN lines |-> [k \in DOMAIN lines[l].Items |-> lines[l].Items[k].Text]]

\* the n-th item is complete: a later time-range line or the whole input was read
ItemRead(r, n) == n < Cardinality(CuePositions(r)) \/ r.pos = Len(r.input)

\* C23: ReadFromSRT goes from AwaitingIndexOrTime to AwaitingText and, at a
\* blank line, back: the Lines of each parsed item are exactly the non-blank
\* lines that follow its time-range line up to the next blank line or the end
\* of the input.
C23_LinesAreTheTextOfTheCue ==
    rd.codec = "srt" =>
        \A n \in DOMAIN rd.items :
            ItemRead(rd, n) =>
                TextsOfLines(rd.items[n].Lines)
                    = [l \in 1..(TextEnd(rd, NthCue(rd, n)) - NthCue(rd, n)) |->
                          TextsOfTokens(rd.input[NthCue(rd, n) + l].tokens)]

\* the part of C23 the reader keeps: the items whose text ends at a blank line
\* and that are followed by another time-range line
TextOfFollowedCues ==
    rd.codec = "srt" =>
        \A n \in DOMAIN rd.items :
            (/\ n < Cardinality(CuePositions(rd))
             /\ TextEnd(rd, NthCue(rd, n)) < Len(rd.input)
             /\ IsBlankLine(rd.input[TextEnd(rd, NthCue(rd, n)) + 1])) =>
                TextsOfLines(rd.items[n].Lines)
                    = [l \in 1..(TextEnd(rd, NthCue(rd, n)) - NthCue(rd, n)) |->
                          TextsOfTokens(rd.input[NthCue(rd, n) + l].tokens)]

(* ---------------------------------------------------------------------- *)
(* Properties of the WebVTT reader                                        *)
(* ---------------------------------------------------------------------- *)

\* the position of the last line of the text of the WebVTT cue whose timing
\* line is at k, among the lines read: the text ends before the next empty
\* line, NOTE line, STYLE line or timing line
CueTextEnd(r, k) ==
    LET stops == {l \in (k + 1)..r.pos :
                     \/ r.input[l].kind \in {"time", "note", "style"}
                     \/ Len(TrimSpace(LineText(r.input[l]))) = 0}
    IN IF stops = {} THEN r.pos ELSE (CHOOSE l \in stops : \A e \in stops : l <= e) - 1

\* the tokens of the lines from a to b
RECURSIVE TokensOfLines(_, _, _)
TokensOfLines(r, a, b) ==
    IF a > b THEN <<>> ELSE r.input[a].tokens \o TokensOfLines(r, a + 1, b)

\* the stack without its last tag of that name, if it has one
CloseTag(stack, name) ==
    LET at == {k \in DOMAIN stack : stack[k].Name = name}
    IN IF at = {} THEN stack ELSE RemoveAt(stack, CHOOSE k \in at : \A l \in at : l <= k)

\* the stacks of the tags that are open at each text of a sequence of tokens: a
\* start tag other than v opens, an end tag closes the start tag it matches
RECURSIVE OpenTagsAtTexts(_, _)
OpenTagsAtTexts(tokens, stack) ==
    IF Len(tokens) = 0 THEN <<>>
    ELSE LET tok == Head(tokens)
         IN IF tok.t = "text" THEN <<stack>> \o OpenTagsAtTexts(Tail(tokens), stack)
            ELSE IF tok.data = <<"v">> THEN OpenTagsAtTexts(Tail(tokens), stack)
            ELSE IF tok.t = "start"
            THEN OpenTagsAtTexts(Tail(tokens), Append(stack, WebVTTTag(tok.data)))
            ELSE OpenTagsAtTexts(Tail(tokens), CloseTag(stack, tok.data))

\* the stacks of tags the texts of an item carry, line after line
RECURSIVE TagsAtTexts(_)
TagsAtTexts(lines) ==
    IF Len(lines) = 0 THEN <<>>
    ELSE [k \in DOMAIN Head(lines).Items |->
             IF Head(lines).Items[k].InlineStyle = Nil THEN <<>>
             ELSE Head(lines).Items[k].InlineStyle.WebVTTTags]
         \o TagsAtTexts(Tail(lines))

\* C25: while ReadFromWebVTT parses the text of a cue, at every text run the
\* tag stack is the sequence of the tags other than v that were opened in that
\* cue and not closed yet, in the order they were opened (an end tag closes
\* the start tag it matches).
C25_StackIsTheOpenTags ==
    rd.codec = "webvtt" =>
        \A n \in DOMAIN rd.items :
            TagsAtTexts(rd.items[n].Lines)
                = OpenTagsAtTexts(TokensOfLines(rd, NthCue(rd, n) + 1,
                                                CueTextEnd(rd, NthCue(rd, n))), <<>>)

\* C30: parsing the text of a cue never changes a Style of the Document's
\* style mapping: the default style made for a STYLE block holds the lines of
\* the STYLE blocks and no tag of a cue.
C30_DefaultStyleHoldsNoCueTags ==
    (rd.codec = "webvtt" /\ rd.styles) =>
        Len(webvttDefaultStyle(rd).InlineStyle.WebVTTTags) = 0


(* ---------------------------------------------------------------------- *)
(* Properties of the SSA reader                                           *)
(* ---------------------------------------------------------------------- *)

\* the dialogues among the events, in their order
Dialogues(es) == SelectSeq(es, LAMBDA e : e.category = ssaEventCategoryDialogue)

\* what a line of an item says: the effect of each line item, if it has one,
\* and then its text
RECURSIVE LineSource(_)
LineSource(items) ==
    IF Len(items) = 0 THEN <<>>
    ELSE (IF Head(items).InlineStyle = Nil THEN <<>>
          ELSE Head(items).InlineStyle.SSAEffect)
         \o Head(items).Text \o LineSource(Tail(items))

\* the parts of the text of an event between "\n", without the spaces around
EventLines(e) ==
    [k \in DOMAIN Split(e.text, <<"\\", "n">>) |->
        TrimSpace(Split(e.text, <<"\\", "n">>)[k])]

\* an item was read from a text with an effect
ReadAnEffect ==
    /\ rd.codec = "ssa" /\ rd.done /\ rd.err = ""
    /\ \E n \in DOMAIN rd.items : \E k \in DOMAIN rd.items[n].Lines :
           \E l \in DOMAIN rd.items[n].Lines[k].Items :
               rd.items[n].Lines[k].Items[l].InlineStyle # Nil

\* C21: ReadFromSSA cuts each line of the text of an event at its effects and
\* loses no text: the text before the first effect is a line item without
\* style, each effect starts a line item whose style holds the effect as it
\* is written and whose text goes to the next effect or to the end of the line.
C21_EffectsLoseNoText ==
    (rd.codec = "ssa" /\ rd.done /\ rd.err = "") =>
        \A n \in DOMAIN rd.items :
            /\ DOMAIN rd.items[n].Lines = DOMAIN EventLines(Dialogues(rd.es)[n])
            /\ \A k \in DOMAIN rd.items[n].Lines :
                   LineSource(rd.items[n].Lines[k].Items)
                       = EventLines(Dialogues(rd.es)[n])[k]

\* what ReadFromSSA keeps of a line: the line from its first effect on
EffectsKeepTheTextAfterTheFirst ==
    (rd.codec = "ssa" /\ rd.done /\ rd.err = "") =>
        \A n \in DOMAIN rd.items : \A k \in DOMAIN rd.items[n].Lines :
            LET line == EventLines(Dialogues(rd.es)[n])[k]
                m == ssaEffectMatches(line, 1)
            IN LineSource(rd.items[n].Lines[k].Items)
                   = IF Len(m) = 0 THEN line ELSE SubSeq(line, m[1][1], Len(line))


(* ---------------------------------------------------------------------- *)
(* Properties of the writer of the lines of WebVTT                        *)
(* ---------------------------------------------------------------------- *)

\* what a reader of markup makes of written tokens: the names of the tags
\* around each text, and whether every end tag closed the tag that was opened
\* last and no tag is left open
RECURSIVE Nesting(_, _, _)
Nesting(tokens, stack, texts) ==
    IF Len(tokens) = 0 THEN [ok |-> Len(stack) = 0, texts |-> texts]
    ELSE LET tok == Head(tokens)
         IN IF tok.t = "text" THEN Nesting(Tail(tokens), stack, Append(texts, stack))
            ELSE IF tok.t = "start"
            THEN Nesting(Tail(tokens), Append(stack, tok.data), texts)
            ELSE IF Len(stack) > 0 /\ stack[Len(stack)] = tok.data
            THEN Nesting(Tail(tokens), SubSeq(stack, 1, Len(stack) - 1), texts)
            ELSE [ok |-> FALSE, texts |-> texts]

\* the names of the tags of each line item of a line
TagNamesOf(line) ==
    [k \in DOMAIN line.Items |->
        [l \in DOMAIN TagsOf(line.Items[k]) |-> TagsOf(line.Items[k])[l].Name]]

\* the line is written
LineWritten == ("pc" \in DOMAIN wr) /\ wr.pc = "done"

\* C26: when WriteToWebVTT writes the line items of a line, it leaves out start
\* and end tags only for the longest common prefix of the tags of adjacent
\* line items: what is written is well nested and each text is enclosed by
\* the tags of its own line item, no other.
C26_WrittenTagsAreWellNested ==
    LineWritten =>
        /\ Nesting(wr.out, <<>>, <<>>).ok
        /\ Nesting(wr.out, <<>>, <<>>).texts = TagNamesOf(wr.line)

\* the length of the longest common prefix of two sequences
CommonPrefix(a, b) ==
    LET same == {n \in 0..Len(a) : n <= Len(b) /\ SubSeq(a, 1, n) = SubSeq(b, 1, n)}
    IN CHOOSE n \in same : \A m \in same : m <= n

\* each tag of a line item is at the same place, under the same name, in the
\* adjacent line item only inside their longest common prefix
SharedTagsArePrefixes(line) ==
    \A k \in 1..(Len(line.Items) - 1) :
        LET a == TagNamesOf(line)[k]
            b == TagNamesOf(line)[k + 1]
        IN \A idx \in DOMAIN a :
               (idx \in DOMAIN b /\ a[idx] = b[idx]) => idx <= CommonPrefix(a, b)

\* on such lines what is written is well nested and encloses each text in its
\* own tags
WellNestedWhenSharedTagsArePrefixes ==
    (LineWritten /\ SharedTagsArePrefixes(wr.line)) =>
        /\ Nesting(wr.out, <<>>, <<>>).ok
        /\ Nesting(wr.out, <<>>, <<>>).texts = TagNamesOf(wr.line)

\* a line whose adjacent line items share tags was written
SharedTagsWritten ==
    /\ LineWritten
    /\ SharedTagsArePrefixes(wr.line)
    /\ \E k \in 1..(Len(wr.line.Items) - 1) :
           CommonPrefix(TagNamesOf(wr.line)[k], TagNamesOf(wr.line)[k + 1]) > 0


(* ---------------------------------------------------------------------- *)
(* Properties of the reader of the styles of TTML                         *)
(* ---------------------------------------------------------------------- *)

\* ReadFromTTML returned without error
TTMLRead == rd.codec = "ttml" /\ rd.pc = "done" /\ rd.err = ""

\* the style at k of the Document refers to a style with the ID its <style>
\* element names
ParentSet(r, k) ==
    /\ r.Styles[k].Style # 0
    /\ r.Styles[r.Styles[k].Style].ID = r.input[k].Style

\* C22: after ReadFromTTML returned without error, every style whose <style>
\* element names a parent has its Style set to the style of the Document with
\* that ID; a parent ID no style has makes ReadFromTTML fail.
C22_ParentStylesAreSet ==
    /\ TTMLRead =>
           \A k \in DOMAIN rd.input : rd.input[k].Style # <<>> => ParentSet(rd, k)
    /\ (rd.codec = "ttml" /\ rd.pc = "done"
            /\ \E k \in DOMAIN rd.input :
                   /\ rd.input[k].Style # <<>>
                   /\ \A l \in DOMAIN rd.input : rd.input[l].ID # rd.input[k].Style)
           => rd.err # ""

\* what ReadFromTTML does: of the styles that name the same parent, the last
\* one has its Style set, the others keep a nil Style; a parent ID no style
\* has is an error
LastChildHasItsParent ==
    /\ TTMLRead =>
           \A k \in DOMAIN rd.input :
               IF rd.input[k].Style # <<>>
                      /\ \A l \in DOMAIN rd.input :
                             rd.input[l].Style = rd.input[k].Style => l <= k
               THEN ParentSet(rd, k)
               ELSE rd.Styles[k].Style = 0
    /\ (rd.codec = "ttml" /\ rd.pc = "done"
            /\ \E k \in DOMAIN rd.input :
                   /\ rd.input[k].Style # <<>>
                   /\ \A l \in DOMAIN rd.input : rd.input[l].ID # rd.input[k].Style)
           => rd.err # ""

\* styles with a parent were read
ParentsRead ==
    TTMLRead /\ \E k \in DOMAIN rd.input : rd.Styles[k].Style # 0


(* ---------------------------------------------------------------------- *)
(* Properties of the reader of the text fields of STL                     *)
(* ---------------------------------------------------------------------- *)

\* the characters of the table for the bytes of a text field that the table
\* holds, row separators left out
RECURSIVE TableCharacters(_)
TableCharacters(text) ==
    IF Len(text) = 0 THEN <<>>
    ELSE (IF Head(text) \in DOMAIN stlLatinTable THEN <<stlLatinTable[Head(text)]>>
          ELSE <<>>) \o TableCharacters(Tail(text))

\* the text of a field whose accents are each combined with the next
\* character of the field; an accent the field ends with is not written
RECURSIVE CombinedInField(_)
CombinedInField(chars) ==
    IF Len(chars) = 0 THEN <<>>
    ELSE IF Head(chars) \notin {"U+0300", "U+0308"}
    THEN <<Head(chars)>> \o CombinedInField(Tail(chars))
    ELSE IF Len(chars) = 1 THEN <<>>
    ELSE NFC(chars[2], chars[1]) \o CombinedInField(Tail(Tail(chars)))

\* C24: when a text field of STL is decoded with the Latin table, the byte of
\* an accent (0xC0 to 0xCF) is never written on its own: it is kept and
\* combined by NFC with the next decoded character of the same text field.
C24_AccentsCombineInTheirField ==
    rd.codec = "stl" =>
        \A n \in DOMAIN rd.items :
            Flatten(rd.items[n]) = CombinedInField(TableCharacters(rd.input[n]))

\* what ReadFromSTL does: an accent is combined with the next decoded
\* character of the document, in whatever text field that character is
RECURSIVE AllTexts(_)
AllTexts(fields) == IF Len(fields) = 0 THEN <<>> ELSE Head(fields) \o AllTexts(Tail(fields))

AccentsCombineInTheDocument ==
    (rd.codec = "stl" /\ rd.pos = Len(rd.input)) =>
        Flatten(AllTexts(rd.items)) = CombinedInField(TableCharacters(AllTexts(rd.input)))

\* a text field with an accent and a character after it was decoded
AccentDecoded ==
    /\ rd.codec = "stl"
    /\ \E n \in DOMAIN rd.items : \E k \in DOMAIN rd.items[n] :
           \E l \in DOMAIN rd.items[n][k] : rd.items[n][k][l] \in {"U+00E8", "U+00EB"}

====
